---- MODULE Spec2Model ----
(***************************************************************************)
(* A model of lumin: the build pipeline (walk, parallel dispatch, flush),  *)
(* the Store (put / get / replace over a mutex-guarded map) and the        *)
(* watcher callback that rebuilds and swaps the live Store.                *)
(*                                                                         *)
(* Threads: the main thread (initial build, then setup of watcher and      *)
(* server), the debouncer thread running the callback, one dispatch task   *)
(* per discovered path (rayon par_iter), and HTTP readers calling          *)
(* Store::get on the live Store.                                           *)
(*                                                                         *)
(* Spec is the running program. BuildSpec is one find_and_process on a     *)
(* fixed tree with any processor list, BuildsSpec is a sequence of them    *)
(* with the same processors, ReplaceSpec is Store::replace called by       *)
(* threads holding handles of two maps, PureSpec applies Resource::url,    *)
(* walk and flush to arguments of their own, and LockSpec is a rebuild     *)
(* next to concurrent gets, lock by lock.                                  *)
(***************************************************************************)
EXTENDS Integers, Sequences, FiniteSets, TLC

\* ------------------------------------------------------------------ bounds

\* How many times the source tree changes on disk during one run.
MaxChanges == 2

\* How many paths a build modelled lock by lock dispatches, how many code
\* blocks a post has there and how many listing pages its flush returns.
MaxTasks == 2

\* How many posts a flush applied on its own is given at most.
MaxPosts == 21
MaxBlocks == 1
MaxPages == 1

\* posts.chunks(10) in PostsProcessor::flush.
PageSize == 10

\* ------------------------------------------------------------------- paths

\* A path is its directory components plus the file name's stem and extension.
MkPath(dir, stem, ext) == [dir |-> dir, stem |-> stem, ext |-> ext]

NoPath == MkPath(<<>>, "", "")

\* args.site_path
Root == <<"site">>

\* path.join("posts"), path.join("partials")
PostsDir == Root \o <<"posts">>
PartialsDir == Root \o <<"partials">>

\* path.join("post.liquid"), path.join("post_list.liquid")
PostTemplatePath == MkPath(Root, "post", "liquid")
PostListTemplatePath == MkPath(Root, "post_list", "liquid")

EXTENSIONS ==
    {"css", "html", "jpg", "jpeg", "woff2", "liquid", "md", "markdown", "png", "svg", "webp"}

STATIC_EXTENSIONS == {"css", "html", "jpg", "jpeg", "woff2"}

\* Path::starts_with for a directory prefix: component-wise prefix.
IsPrefix(pre, s) == Len(pre) <= Len(s) /\ SubSeq(s, 1, Len(pre)) = pre

StartsWith(path, dir) == IsPrefix(dir, path.dir)

FileName(path) == path.stem \o "." \o path.ext

\* PathBuf::set_extension
SetExtension(path, ext) == [path EXCEPT !.ext = ext]

RECURSIVE JoinComps(_)
JoinComps(comps) ==
    IF Len(comps) = 0 THEN ""
    ELSE IF Len(comps) = 1 THEN comps[1]
    ELSE comps[1] \o "/" \o JoinComps(Tail(comps))

\* Path::strip_prefix(base) followed by to_string_lossy: an error when the
\* path is not under base.
StripPrefix(path, base) ==
    IF IsPrefix(base, path.dir)
    THEN [ok |-> TRUE,
          url |-> JoinComps(SubSeq(path.dir, Len(base) + 1, Len(path.dir))
                            \o <<FileName(path)>>)]
    ELSE [ok |-> FALSE, url |-> ""]

\* --------------------------------------------------------------- resources

UseOriginalPath == [kind |-> "UseOriginalPath", path |-> NoPath, s |-> ""]
Filepath(p) == [kind |-> "Filepath", path |-> p, s |-> ""]
Absolute(s) == [kind |-> "Absolute", path |-> NoPath, s |-> s]

MkResource(orig, urlPath, contents) ==
    [original_path |-> orig, url_path |-> urlPath, contents |-> contents]

\* A faulty variant: a Filepath replacement is not used, the URL is always
\* taken from the original path.
ResourceUrlOriginalOnly(res, base) ==
    IF res.url_path.kind = "Absolute"
    THEN [ok |-> TRUE, url |-> res.url_path.s]
    ELSE StripPrefix(res.original_path, base)

\* Resource::url
ResourceUrl(res, base) ==
    IF res.url_path.kind = "Absolute"
    THEN [ok |-> TRUE, url |-> res.url_path.s]
    ELSE StripPrefix(IF res.url_path.kind = "UseOriginalPath"
                     THEN res.original_path
                     ELSE res.url_path.path, base)

\* ------------------------------------------------------------ source trees

\* toml::value::Datetime as the metadata holds it: a date, an optional time
\* (hour < 0: none) and an optional offset from UTC in hours.
NoOffset == [kind |-> "none", hours |-> 0]
Zulu == [kind |-> "Z", hours |-> 0]
OffsetHours(h) == [kind |-> "num", hours |-> h]

Datetime(day, hour, offset) == [day |-> day, hour |-> hour, offset |-> offset]

LocalDate(day) == Datetime(day, -1, NoOffset)

\* Datetime's Display, as the characters String::cmp compares: the date and
\* the time are fixed-width digits, the offset is "Z" (90), or "+" (43) or
\* "-" (45) and its digits.
DatetimeToString(d) ==
    <<d.day>>
    \o (IF d.hour < 0 THEN <<>> ELSE <<d.hour>>)
    \o (CASE d.offset.kind = "none" -> <<>>
          [] d.offset.kind = "Z" -> <<90>>
          [] d.offset.hours >= 0 -> <<43, d.offset.hours>>
          [] OTHER -> <<45, -d.offset.hours>>)

\* The moment a Datetime names, in hours on the UTC time line.
Instant(d) == d.day * 24 + (IF d.hour < 0 THEN 0 ELSE d.hour) - d.offset.hours

\* What is on disk for one file: its bytes and, for a post, the sibling
\* .toml metadata (metaOk: the file exists and parses).
MkFile(bytes, metaOk, title, published) ==
    [bytes |-> bytes, metaOk |-> metaOk, title |-> title, published |-> published]

Plain(bytes) == MkFile(bytes, FALSE, "", LocalDate(0))

CssPath == MkPath(Root, "a", "css")
EmptyCssPath == MkPath(Root, "empty", "css")
IndexPath == MkPath(Root, "index", "liquid")
PartialPath == MkPath(PartialsDir, "head", "liquid")
PngPath == MkPath(Root, "logo", "png")
TxtPath == MkPath(Root, "notes", "txt")
Post1Path == MkPath(PostsDir, "p1", "md")
Post2Path == MkPath(PostsDir, "p2", "md")
IconPath == MkPath(Root \o <<"img", "icons">>, "x", "svg")
StaticIndexPath == MkPath(PostsDir, "index", "html")
Note1Path == MkPath(Root \o <<"notes">>, "n1", "md")
NestedCssPath == MkPath(Root \o <<"old.css">>, "b", "css")

\* A source tree: its files, the directories read_dir fails on and the
\* entries whose metadata cannot be read.
MkTree(files, unreadable, badEntries) ==
    [files |-> files, unreadable |-> unreadable, badEntries |-> badEntries]

\* The states the source tree takes while the site is served.
Tree1 ==
    MkTree((CssPath :> Plain(<<"v1">>))
            @@ (PartialPath :> Plain(<<"head">>))
            @@ (Post1Path :> MkFile(<<"one">>, TRUE, "t1", LocalDate(3)))
            @@ (TxtPath :> Plain(<<"n">>)), {}, {})

Tree2 ==
    MkTree((CssPath :> Plain(<<"v2">>))
            @@ (PostTemplatePath :> Plain(<<"tmpl">>))
            @@ (Post1Path :> MkFile(<<"one">>, TRUE, "t1", LocalDate(3)))
            @@ (Post2Path :> MkFile(<<"two">>, TRUE, "t2", LocalDate(4))), {}, {})

Tree3 ==
    MkTree((EmptyCssPath :> Plain(<<>>))
            @@ (IndexPath :> Plain(<<"home">>))
            @@ (PngPath :> Plain(<<"img">>))
            @@ (Post2Path :> MkFile(<<"two">>, FALSE, "", LocalDate(0))), {}, {})

Tree4 == MkTree((CssPath :> Plain(<<"v1">>)), {Root}, {})

Trees == <<Tree1, Tree2, Tree3, Tree4>>

\* Further trees a single build is run on: two posts published at the same
\* moment; two posts whose published times carry different offsets; files in
\* nested directories, one of them named like a stylesheet; a subdirectory
\* that cannot be read.
Tree5 ==
    MkTree((CssPath :> Plain(<<"v1">>))
            @@ (Post1Path :> MkFile(<<"one">>, TRUE, "t1", LocalDate(3)))
            @@ (Post2Path :> MkFile(<<"two">>, TRUE, "t2", LocalDate(3))), {}, {})

Tree6 ==
    MkTree((Post1Path :> MkFile(<<"one">>, TRUE, "t1", Datetime(1, 10, OffsetHours(9))))
            @@ (Post2Path :> MkFile(<<"two">>, TRUE, "t2", Datetime(1, 5, Zulu)))
            @@ (PngPath :> Plain(<<"img">>)), {}, {})

Tree7 ==
    MkTree((IconPath :> Plain(<<"icon">>))
            @@ (NestedCssPath :> Plain(<<"b">>))
            @@ (IndexPath :> Plain(<<"home">>))
            @@ (TxtPath :> Plain(<<"n">>)), {}, {})

Tree8 ==
    MkTree((IconPath :> Plain(<<"icon">>))
            @@ (CssPath :> Plain(<<"v1">>)), {Root \o <<"img">>}, {})

\* Both templates of the PostsProcessor next to a post and a page.
Tree9 ==
    MkTree((PostTemplatePath :> Plain(<<"tmpl">>))
            @@ (PostListTemplatePath :> Plain(<<"list-tmpl">>))
            @@ (Post1Path :> MkFile(<<"one">>, TRUE, "t1", LocalDate(3)))
            @@ (IndexPath :> Plain(<<"home">>)), {}, {})

\* A post with its metadata next to a post without.
Tree10 ==
    MkTree((Post1Path :> MkFile(<<"one">>, TRUE, "t1", LocalDate(3)))
            @@ (Post2Path :> MkFile(<<"two">>, FALSE, "", LocalDate(0))), {}, {})

\* A static file where the first listing page goes, a post, and a post of a
\* second collection.
Tree11 ==
    MkTree((StaticIndexPath :> Plain(<<"static">>))
            @@ (Post1Path :> MkFile(<<"one">>, TRUE, "t1", LocalDate(3)))
            @@ (Note1Path :> MkFile(<<"note">>, TRUE, "n1", LocalDate(2))), {}, {})

BuildTrees == Trees \o <<Tree5, Tree6, Tree7, Tree8, Tree9, Tree10, Tree11>>

Files(t) == BuildTrees[t].files

\* Some enumeration of a finite set: the order read_dir lists entries in.
RECURSIVE SeqOf(_)
SeqOf(S) ==
    IF S = {} THEN <<>>
    ELSE LET x == CHOOSE y \in S : TRUE IN <<x>> \o SeqOf(S \ {x})

RECURSIVE Flatten(_)
Flatten(ss) == IF Len(ss) = 0 THEN <<>> ELSE ss[1] \o Flatten(Tail(ss))

\* The subdirectories and the non-directory entries of dir.
SubDirs(tree, dir) ==
    {SubSeq(p.dir, 1, Len(dir) + 1) :
        p \in {q \in DOMAIN tree.files : IsPrefix(dir, q.dir) /\ Len(q.dir) > Len(dir)}}

FilesIn(tree, dir) == {p \in DOMAIN tree.files : p.dir = dir}

\* A faulty variant: only the entries of the directory itself are listed.
WalkDirFlat(tree, dir) ==
    IF dir \in tree.unreadable \/ FilesIn(tree, dir) \cap tree.badEntries # {}
    THEN [ok |-> FALSE, paths |-> <<>>]
    ELSE [ok |-> TRUE,
          paths |-> SeqOf({p \in FilesIn(tree, dir) : p.ext \in EXTENSIONS})]

\* walk(dir, paths): read_dir(dir)?, and for each entry: entry?, metadata()?,
\* a directory is walked in turn, any other entry is pushed when its
\* extension is in EXTENSIONS.
RECURSIVE WalkDir(_, _)
WalkDir(tree, dir) ==
    IF dir \in tree.unreadable \/ FilesIn(tree, dir) \cap tree.badEntries # {}
    THEN [ok |-> FALSE, paths |-> <<>>]
    ELSE LET dirs == SeqOf(SubDirs(tree, dir))
             subs == [k \in 1..Len(dirs) |-> WalkDir(tree, dirs[k])]
         IN IF \E k \in DOMAIN subs : ~subs[k].ok
            THEN [ok |-> FALSE, paths |-> <<>>]
            ELSE [ok |-> TRUE,
                  paths |-> SeqOf({p \in FilesIn(tree, dir) : p.ext \in EXTENSIONS})
                            \o Flatten([k \in DOMAIN subs |-> subs[k].paths])]

\* find_and_process: let mut paths = Vec::new(); walk(base, &mut paths)?
\* - an Err of walk is returned, else the paths go on to the dispatch.
FindWalk(tree) ==
    LET w == WalkDir(tree, Root)
    IN [ok |-> w.ok, paths |-> {w.paths[k] : k \in 1..Len(w.paths)}]

Walk(t) == FindWalk(BuildTrees[t])

\* -------------------------------------------------------------- processors

\* main: &[&p, &l, &s]
MainProcs == <<"posts", "liquid", "static">>

\* A caller of find_and_process may pass any implementations of
\* ResourceProcessor: here also one, registered first, that takes the vector
\* images and whose process returns Resource::default().
BlankProcs == <<"blank">> \o MainProcs

\* Or a second PostsProcessor, PostsProcessor::new(path.join("notes"), ...)
\* with the same templates, registered last.
NotesProcs == MainProcs \o <<"notes">>

ProcLists == {MainProcs, BlankProcs, NotesProcs}

\* The processors that are PostsProcessors, each with its own posts list.
PostsInstances == {"posts", "notes"}

\* path.join("notes")
NotesDir == Root \o <<"notes">>

\* The processors slice find_and_process is given.
VARIABLE procs

Procs == procs

BlankMatches(path) == path.ext = "svg"

\* A faulty variant: the PostsProcessor does not claim its two templates.
PostsMatchesPostsOnly(path) ==
    StartsWith(path, PostsDir) /\ path.ext \in {"md", "markdown"}

PostsMatches(path) ==
    \/ path = PostTemplatePath
    \/ path = PostListTemplatePath
    \/ StartsWith(path, PostsDir) /\ path.ext \in {"md", "markdown"}

\* PostsProcessor::matches of the second instance.
NotesMatches(path) ==
    \/ path = PostTemplatePath
    \/ path = PostListTemplatePath
    \/ StartsWith(path, NotesDir) /\ path.ext \in {"md", "markdown"}

LiquidMatches(path) == path.ext = "liquid" /\ ~StartsWith(path, PartialsDir)

StaticMatches(path) == path.ext \in STATIC_EXTENSIONS

Matches(proc, path) ==
    CASE proc = "posts" -> PostsMatches(path)
      [] proc = "liquid" -> LiquidMatches(path)
      [] proc = "static" -> StaticMatches(path)
      [] proc = "blank" -> BlankMatches(path)
      [] proc = "notes" -> NotesMatches(path)

\* The outcome of process: ok, the Resource, and the PostItems it appended
\* to the posts accumulator.
ProcessOk(res, items) == [ok |-> TRUE, res |-> res, items |-> items]
ProcessErr == [ok |-> FALSE, res |-> MkResource(NoPath, UseOriginalPath, <<>>), items |-> <<>>]

MkPostItem(filename, title, published) ==
    [filename |-> filename, title |-> title, published |-> published]

\* The post template applied to the converted markdown and the metadata.
RenderPost(file) == <<"post", file.title>> \o file.bytes

\* A liquid page rendered to a buffer: an empty template renders nothing.
RenderLiquid(bytes) == IF bytes = <<>> THEN <<>> ELSE <<"page">> \o bytes

\* PostsProcessor::process on the tree t
PostsProcess(path, t) ==
    IF path = PostTemplatePath \/ path = PostListTemplatePath
    THEN ProcessOk(MkResource(path, UseOriginalPath, <<>>), <<>>)
    ELSE IF path \notin DOMAIN Files(t) THEN ProcessErr
    ELSE IF ~Files(t)[path].metaOk THEN ProcessErr
    ELSE LET file == Files(t)[path]
             new_path == SetExtension(path, "html")
         IN ProcessOk(MkResource(path, Filepath(new_path), RenderPost(file)),
                      <<MkPostItem(FileName(new_path), file.title,
                                   DatetimeToString(file.published))>>)

\* LiquidProcessor::process
LiquidProcess(path, t) ==
    IF path \notin DOMAIN Files(t) THEN ProcessErr
    ELSE ProcessOk(MkResource(path, Filepath(SetExtension(path, "html")),
                              RenderLiquid(Files(t)[path].bytes)), <<>>)

\* StaticProcessor::process
StaticProcess(path, t) ==
    IF path \notin DOMAIN Files(t) THEN ProcessErr
    ELSE ProcessOk(MkResource(path, UseOriginalPath, Files(t)[path].bytes), <<>>)

\* Resource::default(): an empty original path, UseOriginalPath, no contents.
BlankProcess(path, t) == ProcessOk(MkResource(NoPath, UseOriginalPath, <<>>), <<>>)

Process(proc, path, t) ==
    CASE proc = "posts" -> PostsProcess(path, t)
      [] proc = "liquid" -> LiquidProcess(path, t)
      [] proc = "static" -> StaticProcess(path, t)
      [] proc = "blank" -> BlankProcess(path, t)
      [] proc = "notes" -> PostsProcess(path, t)

\* The dispatch loop of find_and_process: the index of the first processor,
\* from i on, whose matches returns true; 0 when none does.
RECURSIVE FirstMatchFrom(_, _)
FirstMatchFrom(i, path) ==
    IF i > Len(Procs) THEN 0
    ELSE IF Matches(Procs[i], path) THEN i
    ELSE FirstMatchFrom(i + 1, path)

\* A faulty variant: the loop runs from the last processor to the first.
RECURSIVE LastMatchFrom(_, _)
LastMatchFrom(i, path) ==
    IF i < 1 THEN 0
    ELSE IF Matches(Procs[i], path) THEN i
    ELSE LastMatchFrom(i - 1, path)

DispatchProcReversed(path) == LastMatchFrom(Len(Procs), path)

DispatchProc(path) == FirstMatchFrom(1, path)

\* ------------------------------------------------------------------- flush

\* String::cmp on the published strings: lexicographic order.
RECURSIVE LexLess(_, _)
LexLess(a, b) ==
    IF Len(b) = 0 THEN FALSE
    ELSE IF Len(a) = 0 THEN TRUE
    ELSE IF a[1] # b[1] THEN a[1] < b[1]
    ELSE LexLess(Tail(a), Tail(b))

\* One step of the stable sort: item goes after every element that is not
\* before it in the descending order.
RECURSIVE InsertDesc(_, _)
InsertDesc(sorted, item) ==
    IF Len(sorted) = 0 THEN <<item>>
    ELSE IF LexLess(sorted[1].published, item.published)
         THEN <<item>> \o sorted
         ELSE <<sorted[1]>> \o InsertDesc(Tail(sorted), item)

\* posts.sort_by(|a, b| a.published.cmp(&b.published).reverse())
RECURSIVE SortDesc(_)
SortDesc(s) ==
    IF Len(s) = 0 THEN <<>>
    ELSE InsertDesc(SortDesc(SubSeq(s, 1, Len(s) - 1)), s[Len(s)])

\* posts.chunks(n)
\* A faulty variant: chunks_exact, which leaves out a last chunk shorter
\* than n.
RECURSIVE ChunksExact(_, _)
ChunksExact(s, n) ==
    IF Len(s) < n THEN <<>>
    ELSE <<SubSeq(s, 1, n)>> \o ChunksExact(SubSeq(s, n + 1, Len(s)), n)

RECURSIVE Chunks(_, _)
Chunks(s, n) ==
    IF Len(s) = 0 THEN <<>>
    ELSE IF Len(s) <= n THEN <<s>>
    ELSE <<SubSeq(s, 1, n)>> \o Chunks(SubSeq(s, n + 1, Len(s)), n)

Titles(chunk) == [k \in 1..Len(chunk) |-> chunk[k].title]

\* PostsProcessor::render_post_list (i counts from 0)
RenderPostList(i, last, chunk) ==
    LET new_path == IF i = 0 THEN "posts/index.html"
                    ELSE "posts/posts-" \o ToString(i) \o ".html"
        previous == IF i = 0 THEN ""
                    ELSE IF i = 1 THEN "/posts/index.html"
                    ELSE "/posts/posts-" \o ToString(i - 1) \o ".html"
        next == IF last THEN "" ELSE "posts-" \o ToString(i + 1) \o ".html"
    IN MkResource(PostListTemplatePath, Absolute(new_path),
                  <<"list", previous, next>> \o Titles(chunk))

\* PostsProcessor::flush on the accumulated posts: the listing pages.
PostsFlush(acc) ==
    LET chunks == Chunks(SortDesc(acc), PageSize)
        len == Len(chunks)
    IN [k \in 1..len |-> RenderPostList(k - 1, k - 1 = len - 1, chunks[k])]

\* ------------------------------------------------------------------- store

EmptyMap == [u \in {} |-> MkResource(NoPath, UseOriginalPath, <<>>)]

\* A faulty variant: an entry already under the URL is kept.
PutKeepingFirst(map, url, res) ==
    IF res.contents = <<>> \/ url \in DOMAIN map THEN map
    ELSE [u \in DOMAIN map \cup {url} |-> IF u = url THEN res ELSE map[u]]

\* A faulty variant: put without the check for empty contents.
PutUnchecked(map, url, res) ==
    [u \in DOMAIN map \cup {url} |-> IF u = url THEN res ELSE map[u]]

\* A faulty variant: the entry goes into a copy of the map, which is dropped
\* with the task's clone of the Store.
PutIntoCopy(map, url, res) == map

\* Store::put under the lock: no-op for empty contents, else insert/overwrite.
Put(map, url, res) ==
    IF res.contents = <<>> THEN map
    ELSE [u \in DOMAIN map \cup {url} |-> IF u = url THEN res ELSE map[u]]

\* hm.get(path).cloned(): the empty set for None, a singleton for Some.
Lookup(map, url) == IF url \in DOMAIN map THEN {map[url]} ELSE {}

\* A faulty variant: the new entries are copied over the old map, whose
\* other entries stay.
SwapMapsMerging(selfMap, otherMap) ==
    <<[u \in DOMAIN selfMap \cup DOMAIN otherMap |->
          IF u \in DOMAIN otherMap THEN otherMap[u] ELSE selfMap[u]], selfMap>>

\* A faulty variant: the new contents are copied into self, and other keeps
\* them.
SwapMapsCopying(selfMap, otherMap) == <<otherMap, otherMap>>

\* std::mem::swap(&mut *handle, &mut *other_handle): the new contents of
\* <<self, other>>.
SwapMaps(selfMap, otherMap) == <<otherMap, selfMap>>

RECURSIVE PutAll(_, _, _)
PutAll(map, urls, ress) ==
    IF Len(ress) = 0 THEN map
    ELSE PutAll(Put(map, urls[1], ress[1]), Tail(urls), Tail(ress))

\* ------------------------------------------------------------------- state

\* The threads that run find_and_process: main (the initial build) and the
\* debouncer thread (the callback's rebuild).
Builders == {"main", "watcher"}

\* The two maps: the one the initial build fills and the server reads, and
\* the Store::default() of a watcher-triggered rebuild.
MapIds == {"live", "fresh"}

\* The map behind the Store a builder's find_and_process creates.
BuildMap(b) == IF b = "main" THEN "live" ELSE "fresh"

\* HTTP handlers calling Store::get.
Readers == {"r1", "r2"}

\* The URLs the readers ask for.
Keys == {"a.css", "posts/p2.html"}

\* Threads calling Store::replace on handles of the two maps.
Callers == {"c1", "c2"}

\* A caller that has not called replace.
Idle == [pc |-> "idle", self |-> "live", other |-> "live"]

\* The mutexes: PostsProcessor.highlighter, PostsProcessor.posts, the hm of
\* the Store a rebuild fills and the hm of the Store the server reads.
Locks == {"highlighter", "posts", "fresh", "live"}

\* The rayon workers that run the dispatch tasks of a rebuild.
Workers == {"w1", "w2"}

\* No function has been applied, none has returned.
NoInput == [fn |-> "none"]
NoOutput == [fn |-> "none"]

VARIABLES
    fs,        \* the tree now on disk: an index of Trees
    nchanges,  \* how many times the tree has changed
    pending,   \* the debouncer holds events not yet handed to the callback
    mainpc,    \* main: "build", "serving", "exited"
    wpc,       \* debouncer thread: "Off", "Watching", "Rebuilding", the steps
               \* of replace, "Notify", "Dead"
    bphase,    \* per builder: "Idle", "Walking", "Dispatching", "Flushing",
               \* "Done", "Failed"
    todo,      \* per builder: the walked paths no dispatch task has taken
    held,      \* per builder: Resources processed and not yet put
    berr,      \* per builder: try_for_each has seen an Err
    fidx,      \* per builder: the processor the flush loop is at
    hm,        \* per map: the HashMap<String, Resource>
    lock,      \* per map: the thread holding its mutex, or "none"
    torn,      \* the maps mem::swap is in the middle of exchanging
    posts,     \* per PostsProcessor: its posts, the accumulated PostItems
    rpc,       \* per reader: "idle", "locked", "got"
    rkey,      \* per reader: the key of the get in progress
    rres,      \* per reader: what the get read
    \* history
    calls,     \* per builder: the process calls made, <<processor index, path>>
    pushed,    \* per builder: the PostItems its process calls appended
    flushed,   \* per builder: the titles on the listing pages its flushes returned
    bfail,     \* per builder: a walk, process, url or flush error occurred
    gens,      \* the generations the live map has held, in order
    rlo,       \* per reader: Len(gens) when its get was called
    snap,      \* what new_store held when replace was called
    attempt,   \* the live map and the replace count when the callback began
    nreplace,  \* how many times replace has been called
    nnotify,   \* how many notifications the callback has sent on the channel
    flushCalls,\* per builder: the processors whose flush was called, in order
    \* calls made outside main
    cst,       \* per caller of Store::replace: where it is, and its handles
    pin,       \* the argument of a function applied on its own
    pout,      \* what that function returned
    \* a rebuild lock by lock
    lk,        \* per mutex: the thread holding it, or "none"
    tpc,       \* per thread: where it is
    ntasks,    \* the walked paths no dispatch task has taken
    nblocks,   \* per worker: the code blocks of its post not yet highlighted
    npages,    \* the listing pages not yet put
    derr       \* try_for_each has seen an Err

lockVars == <<lk, tpc, ntasks, nblocks, npages, derr>>

progVars == <<fs, nchanges, pending, mainpc, wpc, bphase, todo, held, berr, fidx,
              hm, lock, torn, posts, rpc, rkey, rres,
              calls, pushed, flushed, bfail, gens, rlo, snap, attempt, nreplace,
              nnotify, flushCalls, procs, cst, pin, pout>>

vars == <<progVars, lockVars>>

envVars == <<fs, nchanges, pending>>
buildVars == <<bphase, todo, held, berr, fidx>>
readerVars == <<rpc, rkey, rres, rlo>>
buildHist == <<calls, pushed, flushed, bfail, flushCalls>>
swapHist == <<gens, snap, attempt, nreplace, nnotify>>
argVars == <<procs, cst, pin, pout>>

\* The threads of a rebuild modelled lock by lock: the debouncer thread, the
\* workers and the request handlers.
LockThreads == {"rebuild"} \cup Workers \cup Readers

\* No mutex is held, no thread has begun anything.
NoThreads ==
    /\ lk = [l \in Locks |-> "none"]
    /\ tpc = [t \in LockThreads |-> "Idle"]
    /\ ntasks = 0
    /\ nblocks = [w \in Workers |-> 0]
    /\ npages = 0
    /\ derr = FALSE

\* No find_and_process has started, but main's if mainPhase says so.
NoBuild(mainPhase) ==
    /\ bphase = [b \in Builders |-> IF b = "main" THEN mainPhase ELSE "Idle"]
    /\ todo = [b \in Builders |-> {}]
    /\ held = [b \in Builders |-> {}]
    /\ berr = [b \in Builders |-> FALSE]
    /\ fidx = [b \in Builders |-> 1]
    /\ posts = [p \in PostsInstances |-> <<>>]

\* No get is in progress.
NoReads ==
    /\ rpc = [r \in Readers |-> "idle"]
    /\ rkey = [r \in Readers |-> ""]
    /\ rres = [r \in Readers |-> {}]
    /\ rlo = [r \in Readers |-> 0]

\* Nothing has happened yet.
NoHistory ==
    /\ calls = [b \in Builders |-> {}]
    /\ pushed = [b \in Builders |-> {}]
    /\ flushed = [b \in Builders |-> <<>>]
    /\ bfail = [b \in Builders |-> FALSE]
    /\ flushCalls = [b \in Builders |-> <<>>]
    /\ gens = <<>>
    /\ snap = EmptyMap
    /\ attempt = [live |-> EmptyMap, nreplace |-> 0]
    /\ nreplace = 0
    /\ nnotify = 0

\* main has parsed its arguments, built the processors and called
\* find_and_process for the initial build.
Init ==
    /\ NoThreads
    /\ fs \in 1..Len(Trees)
    /\ nchanges = 0
    /\ pending = FALSE
    /\ mainpc = "build"
    /\ wpc = "Off"
    /\ NoBuild("Walking")
    /\ hm = [m \in MapIds |-> EmptyMap]
    /\ lock = [m \in MapIds |-> "none"]
    /\ torn = {}
    /\ NoReads
    /\ NoHistory
    /\ procs = MainProcs
    /\ cst = [c \in Callers |-> Idle]
    /\ pin = NoInput
    /\ pout = NoOutput

\* -------------------------------------------------------- find_and_process

\* walk(base, &mut paths)?; let store = Store::default();
BuildWalk(b) ==
    /\ bphase[b] = "Walking"
    /\ LET w == Walk(fs)
       IN IF w.ok
          THEN /\ bphase' = [bphase EXCEPT ![b] = "Dispatching"]
               /\ todo' = [todo EXCEPT ![b] = w.paths]
               /\ hm' = [hm EXCEPT ![BuildMap(b)] = EmptyMap]
               /\ bfail' = [bfail EXCEPT ![b] = FALSE]
          ELSE /\ bphase' = [bphase EXCEPT ![b] = "Failed"]
               /\ bfail' = [bfail EXCEPT ![b] = TRUE]
               /\ UNCHANGED <<todo, hm>>
    /\ held' = [held EXCEPT ![b] = {}]
    /\ berr' = [berr EXCEPT ![b] = FALSE]
    /\ fidx' = [fidx EXCEPT ![b] = 1]
    /\ calls' = [calls EXCEPT ![b] = {}]
    /\ pushed' = [pushed EXCEPT ![b] = {}]
    /\ flushed' = [flushed EXCEPT ![b] = <<>>]
    /\ flushCalls' = [flushCalls EXCEPT ![b] = <<>>]
    /\ UNCHANGED <<argVars, lockVars, envVars, mainpc, wpc, lock, torn, posts, readerVars, swapHist>>

\* One dispatch task, up to the end of process: the loop over the processors
\* and the first matching processor's process call, which reads the file as
\* it is on disk now and, for a post, appends to the posts accumulator.
\* Tasks exist from the walk until try_for_each has joined them.
TaskProcess(b, path) ==
    /\ path \in todo[b]
    /\ todo' = [todo EXCEPT ![b] = @ \ {path}]
    /\ LET i == DispatchProc(path)
       IN IF i = 0
          THEN UNCHANGED <<held, berr, posts, calls, pushed, bfail>>
          ELSE LET out == Process(Procs[i], path, fs)
               IN /\ calls' = [calls EXCEPT ![b] = @ \cup {<<i, path>>}]
                  /\ IF out.ok
                     THEN /\ posts' = IF Procs[i] \in PostsInstances
                                       THEN [posts EXCEPT ![Procs[i]] = @ \o out.items]
                                       ELSE posts
                          /\ pushed' = [pushed EXCEPT ![b] =
                                           @ \cup {out.items[k] : k \in 1..Len(out.items)}]
                          /\ held' = [held EXCEPT ![b] =
                                         @ \cup {[path |-> path, proc |-> i, res |-> out.res]}]
                          /\ UNCHANGED <<berr, bfail>>
                     ELSE /\ berr' = [berr EXCEPT ![b] = TRUE]
                          /\ bfail' = [bfail EXCEPT ![b] = TRUE]
                          /\ UNCHANGED <<held, posts, pushed>>
    /\ UNCHANGED <<argVars, lockVars, envVars, mainpc, wpc, bphase, fidx, hm, lock, torn,
                   readerVars, flushed, flushCalls, swapHist>>

\* A faulty variant: a Resource whose URL cannot be resolved is skipped and
\* the task returns Ok.
TaskPutSkipping(b, h) ==
    /\ h \in held[b]
    /\ lock[BuildMap(b)] = "none"
    /\ held' = [held EXCEPT ![b] = @ \ {h}]
    /\ LET u == ResourceUrl(h.res, Root)
       IN hm' = [hm EXCEPT ![BuildMap(b)] = IF u.ok THEN Put(@, u.url, h.res) ELSE @]
    /\ UNCHANGED <<argVars, lockVars, envVars, mainpc, wpc, bphase, todo, berr, fidx, lock, torn, posts,
                   readerVars, buildHist, swapHist>>

\* The rest of the task: resource.url(base)? and store.put(url, resource).
TaskPut(b, h) ==
    /\ h \in held[b]
    /\ lock[BuildMap(b)] = "none"
    /\ held' = [held EXCEPT ![b] = @ \ {h}]
    /\ LET u == ResourceUrl(h.res, Root)
       IN IF u.ok
          THEN /\ hm' = [hm EXCEPT ![BuildMap(b)] = Put(@, u.url, h.res)]
               /\ UNCHANGED <<berr, bfail>>
          ELSE /\ berr' = [berr EXCEPT ![b] = TRUE]
               /\ bfail' = [bfail EXCEPT ![b] = TRUE]
               /\ UNCHANGED hm
    /\ UNCHANGED <<argVars, lockVars, envVars, mainpc, wpc, bphase, todo, fidx, lock, torn, posts,
                   readerVars, calls, pushed, flushed, flushCalls, swapHist>>

\* A faulty variant: the result of try_for_each is dropped.
DispatchErrorIgnored(b) == FALSE

\* Whether try_for_each(...)? returns the error.
DispatchFailed(b) == berr[b]

\* A faulty variant: the flush loop does not wait for the dispatch tasks.
DispatchNotJoined(b) == TRUE

\* The join at the end of the parallel iterator: every started task has
\* finished, and either no path is left or an Err stopped the iteration.
DispatchJoined(b) == held[b] = {} /\ (todo[b] = {} \/ berr[b])

\* try_for_each returns; the paths an Err left untaken are dropped.
DispatchEnd(b) ==
    /\ bphase[b] = "Dispatching"
    /\ DispatchJoined(b)
    /\ bphase' = [bphase EXCEPT ![b] = IF DispatchFailed(b) THEN "Failed" ELSE "Flushing"]
    /\ todo' = [todo EXCEPT ![b] = IF berr[b] THEN {} ELSE @]
    /\ UNCHANGED <<argVars, lockVars, envVars, mainpc, wpc, held, berr, fidx, hm, lock, torn,
                   posts, readerVars, buildHist, swapHist>>

\* The URLs of a list of Resources.
Urls(ress) == [k \in 1..Len(ress) |-> ResourceUrl(ress[k], Root)]

\* The post titles a listing page shows, after its header.
PageTitles(res) == SubSeq(res.contents, 4, Len(res.contents))

\* The post titles a list of listing pages shows, in page order.
RECURSIVE ListedTitles(_)
ListedTitles(ress) ==
    IF Len(ress) = 0 THEN <<>>
    ELSE PageTitles(ress[1]) \o ListedTitles(Tail(ress))

\* A faulty variant: the flush loop ends at the first processor whose flush
\* returns no Resource, instead of going on to the next.
FlushDefaultBreaks(b) ==
    /\ bphase[b] = "Flushing"
    /\ Procs[fidx[b]] \notin PostsInstances
    /\ bphase' = [bphase EXCEPT ![b] = "Done"]
    /\ fidx' = [fidx EXCEPT ![b] = @ + 1]
    /\ flushCalls' = [flushCalls EXCEPT ![b] = Append(@, fidx[b])]
    /\ UNCHANGED <<argVars, lockVars, envVars, mainpc, wpc, todo, held, berr, hm, lock, torn, posts,
                   readerVars, calls, pushed, flushed, bfail, swapHist>>

\* One iteration of the flush loop, for a processor whose flush is the
\* default: no Resource.
FlushDefault(b) ==
    /\ bphase[b] = "Flushing"
    /\ Procs[fidx[b]] \notin PostsInstances
    /\ bphase' = [bphase EXCEPT ![b] = IF fidx[b] = Len(Procs) THEN "Done" ELSE @]
    /\ fidx' = [fidx EXCEPT ![b] = @ + 1]
    /\ flushCalls' = [flushCalls EXCEPT ![b] = Append(@, fidx[b])]
    /\ UNCHANGED <<argVars, lockVars, envVars, mainpc, wpc, todo, held, berr, hm, lock, torn, posts,
                   readerVars, calls, pushed, flushed, bfail, swapHist>>

\* One iteration of the flush loop for a PostsProcessor: flush takes the
\* posts it has accumulated and renders the listing pages (the template may
\* fail to render), and each page is put.
FlushPosts(b) ==
    /\ bphase[b] = "Flushing"
    /\ Procs[fidx[b]] \in PostsInstances
    /\ lock[BuildMap(b)] = "none"
    /\ posts' = [posts EXCEPT ![Procs[fidx[b]]] = <<>>]
    /\ flushCalls' = [flushCalls EXCEPT ![b] = Append(@, fidx[b])]
    /\ \E renderOk \in (IF posts[Procs[fidx[b]]] = <<>> THEN {TRUE} ELSE BOOLEAN) :
          LET ress == PostsFlush(posts[Procs[fidx[b]]])
              urls == Urls(ress)
          IN IF renderOk /\ \A k \in 1..Len(urls) : urls[k].ok
             THEN /\ hm' = [hm EXCEPT ![BuildMap(b)] =
                               PutAll(@, [k \in 1..Len(urls) |-> urls[k].url], ress)]
                  /\ bphase' = [bphase EXCEPT ![b] =
                                   IF fidx[b] = Len(Procs) THEN "Done" ELSE @]
                  /\ fidx' = [fidx EXCEPT ![b] = @ + 1]
                  /\ flushed' = [flushed EXCEPT ![b] = @ \o ListedTitles(ress)]
                  /\ UNCHANGED bfail
             ELSE /\ bphase' = [bphase EXCEPT ![b] = "Failed"]
                  /\ bfail' = [bfail EXCEPT ![b] = TRUE]
                  /\ UNCHANGED <<hm, fidx, flushed>>
    /\ UNCHANGED <<argVars, lockVars, envVars, mainpc, wpc, todo, held, berr, lock, torn,
                   readerVars, calls, pushed, swapHist>>

\* -------------------------------------------------------------------- main

\* A faulty variant: the debouncer is created and watching before the
\* initial find_and_process has returned.
MainSetupEarly ==
    /\ mainpc = "build"
    /\ bphase["main"] # "Failed"
    /\ mainpc' = "serving"
    /\ wpc' = "Watching"
    /\ gens' = <<hm["live"]>>
    /\ UNCHANGED <<argVars, lockVars, envVars, buildVars, hm, lock, torn, posts, readerVars,
                   buildHist, snap, attempt, nreplace, nnotify>>

\* The initial find_and_process returned Ok: main clones the Store for the
\* callback, creates the debouncer, watches the root and starts serving.
MainSetup ==
    /\ mainpc = "build"
    /\ bphase["main"] = "Done"
    /\ mainpc' = "serving"
    /\ wpc' = "Watching"
    /\ gens' = <<hm["live"]>>
    /\ UNCHANGED <<argVars, lockVars, envVars, buildVars, hm, lock, torn, posts, readerVars,
                   buildHist, snap, attempt, nreplace, nnotify>>

\* The initial find_and_process returned Err: main returns it and the
\* process ends.
MainExit ==
    /\ mainpc = "build"
    /\ bphase["main"] = "Failed"
    /\ mainpc' = "exited"
    /\ UNCHANGED <<argVars, lockVars, envVars, wpc, buildVars, hm, lock, torn, posts, readerVars,
                   buildHist, swapHist>>

\* ------------------------------------------------------------- file system

\* The source tree changes on disk; a watching debouncer records the event.
FsChange ==
    /\ mainpc # "exited"
    /\ nchanges < MaxChanges
    /\ \E t \in 1..Len(Trees) : t # fs /\ fs' = t
    /\ nchanges' = nchanges + 1
    /\ pending' = IF wpc \in {"Off", "Dead"} THEN pending ELSE TRUE
    /\ UNCHANGED <<argVars, lockVars, mainpc, wpc, buildVars, hm, lock, torn, posts, readerVars,
                   buildHist, swapHist>>

\* ----------------------------------------------------- debouncer callback

\* A faulty variant: the callback locks the live Store's map before it
\* rebuilds.
WatcherFireLocking ==
    /\ wpc = "Watching"
    /\ pending
    /\ lock["live"] = "none"
    /\ lock' = [lock EXCEPT !["live"] = "watcher"]
    /\ pending' = FALSE
    /\ wpc' = "Rebuilding"
    /\ bphase' = [bphase EXCEPT !["watcher"] = "Walking"]
    /\ attempt' = [live |-> hm["live"], nreplace |-> nreplace]
    /\ UNCHANGED <<argVars, lockVars, fs, nchanges, mainpc, todo, held, berr, fidx, hm, torn,
                   posts, readerVars, buildHist, gens, snap, nreplace, nnotify>>

\* The debouncer thread hands its events to the callback, which calls
\* rebuild, which calls find_and_process.
WatcherFire ==
    /\ wpc = "Watching"
    /\ pending
    /\ pending' = FALSE
    /\ wpc' = "Rebuilding"
    /\ bphase' = [bphase EXCEPT !["watcher"] = "Walking"]
    /\ attempt' = [live |-> hm["live"], nreplace |-> nreplace]
    /\ UNCHANGED <<argVars, lockVars, fs, nchanges, mainpc, todo, held, berr, fidx, hm, lock, torn,
                   posts, readerVars, buildHist, gens, snap, nreplace, nnotify>>

\* A faulty variant: rebuild swaps in whatever the build left, error or not.
RebuildOkOrErr == bphase["watcher"] \in {"Done", "Failed"}

\* rebuild: find_and_process(path, processors)? lets the Store through.
RebuildOk == bphase["watcher"] = "Done"

\* A faulty variant: the error of rebuild is logged and the callback goes on
\* to send the notification.
CallbackSendsOnError ==
    /\ wpc = "Rebuilding"
    /\ bphase["watcher"] = "Failed"
    /\ wpc' = "Watching"
    /\ nnotify' = nnotify + 1
    /\ bphase' = [bphase EXCEPT !["watcher"] = "Idle"]
    /\ UNCHANGED <<argVars, lockVars, envVars, mainpc, todo, held, berr, fidx, hm, lock, torn, posts,
                   readerVars, buildHist, gens, snap, attempt, nreplace>>

\* rebuild returned Err: expect("rebuild did not work") panics on the
\* debouncer thread, which unwinds and ends.
CallbackPanic ==
    /\ wpc = "Rebuilding"
    /\ bphase["watcher"] = "Failed"
    /\ wpc' = "Dead"
    /\ UNCHANGED <<argVars, lockVars, envVars, mainpc, buildVars, hm, lock, torn, posts, readerVars,
                   buildHist, swapHist>>

\* store.replace(new_store): other.hm.lock()
ReplaceLockOther ==
    /\ wpc = "Rebuilding"
    /\ RebuildOk
    /\ lock["fresh"] = "none"
    /\ lock' = [lock EXCEPT !["fresh"] = "watcher"]
    /\ wpc' = "LockSelf"
    /\ snap' = hm["fresh"]
    /\ nreplace' = nreplace + 1
    /\ UNCHANGED <<argVars, lockVars, envVars, mainpc, buildVars, hm, torn, posts, readerVars,
                   buildHist, gens, attempt, nnotify>>

\* self.hm.lock()
ReplaceLockSelf ==
    /\ wpc = "LockSelf"
    /\ lock["live"] = "none"
    /\ lock' = [lock EXCEPT !["live"] = "watcher"]
    /\ wpc' = "Swap"
    /\ UNCHANGED <<argVars, lockVars, envVars, mainpc, buildVars, hm, torn, posts, readerVars,
                   buildHist, swapHist>>

\* mem::swap starts exchanging the two HashMap values in place.
ReplaceSwapBegin ==
    /\ wpc = "Swap"
    /\ torn' = {"live", "fresh"}
    /\ wpc' = "Swapping"
    /\ UNCHANGED <<argVars, lockVars, envVars, mainpc, buildVars, hm, lock, posts, readerVars,
                   buildHist, swapHist>>

\* mem::swap has exchanged them.
ReplaceSwapEnd ==
    /\ wpc = "Swapping"
    /\ LET sw == SwapMaps(hm["live"], hm["fresh"])
       IN hm' = [hm EXCEPT !["live"] = sw[1], !["fresh"] = sw[2]]
    /\ torn' = {}
    /\ gens' = Append(gens, snap)
    /\ wpc' = "Unlock"
    /\ UNCHANGED <<argVars, lockVars, envVars, mainpc, buildVars, lock, posts, readerVars,
                   buildHist, snap, attempt, nreplace, nnotify>>

\* replace returns: both guards are dropped, then other, the Store that now
\* holds the old generation.
ReplaceReturn ==
    /\ wpc = "Unlock"
    /\ lock' = [lock EXCEPT !["live"] = "none", !["fresh"] = "none"]
    /\ hm' = [hm EXCEPT !["fresh"] = EmptyMap]
    /\ wpc' = "Notify"
    /\ UNCHANGED <<argVars, lockVars, envVars, mainpc, buildVars, torn, posts, readerVars,
                   buildHist, swapHist>>

\* rebuild returned Ok: new_tx.send(()), and the callback returns to the
\* debouncer loop.
CallbackNotify ==
    /\ wpc = "Notify"
    /\ wpc' = "Watching"
    /\ nnotify' = nnotify + 1
    /\ bphase' = [bphase EXCEPT !["watcher"] = "Idle"]
    /\ UNCHANGED <<argVars, lockVars, envVars, mainpc, todo, held, berr, fidx, hm, lock, torn, posts,
                   readerVars, buildHist, gens, snap, attempt, nreplace>>

\* ------------------------------------------------------------- Store::get

\* What a read of map m finds for key k: the entry, or anything at all while
\* mem::swap is rewriting the map (a data race).
ReadValues(m, k) ==
    IF m \in torn
    THEN {{}} \cup {Lookup(hm[n], k) : n \in MapIds}
    ELSE {Lookup(hm[m], k)}

\* A faulty variant: get reads the map without taking its mutex.
GetWithoutLock(r, k) ==
    /\ mainpc = "serving"
    /\ rpc[r] = "idle"
    /\ rpc' = [rpc EXCEPT ![r] = "locked"]
    /\ rkey' = [rkey EXCEPT ![r] = k]
    /\ rlo' = [rlo EXCEPT ![r] = Len(gens)]
    /\ UNCHANGED <<argVars, lockVars, envVars, mainpc, wpc, buildVars, hm, lock, torn, posts, rres,
                   buildHist, swapHist>>

\* get: self.hm.lock().unwrap()
GetLock(r, k) ==
    /\ mainpc = "serving"
    /\ rpc[r] = "idle"
    /\ lock["live"] = "none"
    /\ lock' = [lock EXCEPT !["live"] = r]
    /\ rpc' = [rpc EXCEPT ![r] = "locked"]
    /\ rkey' = [rkey EXCEPT ![r] = k]
    /\ rlo' = [rlo EXCEPT ![r] = Len(gens)]
    /\ UNCHANGED <<argVars, lockVars, envVars, mainpc, wpc, buildVars, hm, torn, posts, rres,
                   buildHist, swapHist>>

\* hm.get(path).cloned()
GetRead(r) ==
    /\ rpc[r] = "locked"
    /\ \E v \in ReadValues("live", rkey[r]) : rres' = [rres EXCEPT ![r] = v]
    /\ rpc' = [rpc EXCEPT ![r] = "got"]
    /\ UNCHANGED <<argVars, lockVars, envVars, mainpc, wpc, buildVars, hm, lock, torn, posts, rkey, rlo,
                   buildHist, swapHist>>

\* get returns: the guard is dropped.
GetReturn(r) ==
    /\ rpc[r] = "got"
    /\ lock' = [lock EXCEPT !["live"] = "none"]
    /\ rpc' = [rpc EXCEPT ![r] = "idle"]
    /\ rkey' = [rkey EXCEPT ![r] = ""]
    /\ rres' = [rres EXCEPT ![r] = {}]
    /\ rlo' = [rlo EXCEPT ![r] = 0]
    /\ UNCHANGED <<argVars, lockVars, envVars, mainpc, wpc, buildVars, hm, torn, posts,
                   buildHist, swapHist>>

\* ------------------------------------------------------------ specification

AllPaths == UNION {DOMAIN Files(t) : t \in 1..Len(BuildTrees)}

AllHeld == UNION {held[b] : b \in Builders}

Next ==
    \/ \E b \in Builders : BuildWalk(b)
    \/ \E b \in Builders, path \in AllPaths : TaskProcess(b, path)
    \/ \E b \in Builders, h \in AllHeld : TaskPut(b, h)
    \/ \E b \in Builders : DispatchEnd(b)
    \/ \E b \in Builders : FlushDefault(b)
    \/ \E b \in Builders : FlushPosts(b)
    \/ MainSetup
    \/ MainExit
    \/ FsChange
    \/ WatcherFire
    \/ CallbackPanic
    \/ ReplaceLockOther
    \/ ReplaceLockSelf
    \/ ReplaceSwapBegin
    \/ ReplaceSwapEnd
    \/ ReplaceReturn
    \/ CallbackNotify
    \/ \E r \in Readers, k \in Keys : GetLock(r, k)
    \/ \E r \in Readers : GetRead(r)
    \/ \E r \in Readers : GetReturn(r)

Spec == Init /\ [][Next]_vars

\* ------------------------------------------------------- a single build

\* find_and_process called once, on any of the trees, with any of the
\* processor lists; the tree does not change while it runs.
BuildInit ==
    /\ NoThreads
    /\ fs \in 1..Len(BuildTrees)
    /\ procs \in ProcLists
    /\ nchanges = 0
    /\ pending = FALSE
    /\ mainpc = "build"
    /\ wpc = "Off"
    /\ NoBuild("Walking")
    /\ hm = [m \in MapIds |-> EmptyMap]
    /\ lock = [m \in MapIds |-> "none"]
    /\ torn = {}
    /\ NoReads
    /\ NoHistory
    /\ cst = [c \in Callers |-> Idle]
    /\ pin = NoInput
    /\ pout = NoOutput

BuildNext ==
    \/ BuildWalk("main")
    \/ \E path \in AllPaths : TaskProcess("main", path)
    \/ \E h \in AllHeld : TaskPut("main", h)
    \/ DispatchEnd("main")
    \/ FlushDefault("main")
    \/ FlushPosts("main")

BuildSpec == BuildInit /\ [][BuildNext]_vars

\* ------------------------------------------------------ builds in sequence

\* find_and_process has returned, Ok or Err, and its caller calls it again
\* with the same processors, on the tree as it is by then.
BuildAgain ==
    /\ bphase["main"] \in {"Done", "Failed"}
    /\ nchanges < MaxChanges
    /\ nchanges' = nchanges + 1
    /\ \E t \in 1..Len(BuildTrees) : fs' = t
    /\ bphase' = [bphase EXCEPT !["main"] = "Walking"]
    /\ UNCHANGED <<argVars, lockVars, pending, mainpc, wpc, todo, held, berr, fidx, hm, lock, torn,
                   posts, readerVars, buildHist, swapHist>>

BuildsNext ==
    \/ BuildNext
    \/ BuildAgain

BuildsSpec == BuildInit /\ [][BuildsNext]_vars

\* ------------------------------------------------ Store::replace on its own

\* The two maps another program's Stores hold before any replace.
MapA == Put(EmptyMap, "a.css", MkResource(CssPath, UseOriginalPath, <<"v1">>))
MapB == Put(EmptyMap, "b.css", MkResource(NestedCssPath, Absolute("b.css"), <<"b">>))

\* What the next lock() of a caller is on, if it is at one.
LockTarget(c) ==
    IF cst[c].pc = "LockOther" THEN {cst[c].other}
    ELSE IF cst[c].pc = "LockSelf" THEN {cst[c].self}
    ELSE {}

\* The guards a caller holds: other_handle from its second lock on, handle
\* once it has it.
Guards(c) ==
    (IF cst[c].pc \in {"LockSelf", "Swap", "Unlock"} THEN {cst[c].other} ELSE {})
    \cup (IF cst[c].pc \in {"Swap", "Unlock"} THEN {cst[c].self} ELSE {})

\* A thread calls self.replace(other): the handles are of any of the maps,
\* the same one included.
CallReplace(c, self, other) ==
    /\ cst[c].pc = "idle"
    /\ cst' = [cst EXCEPT ![c] = [pc |-> "LockOther", self |-> self, other |-> other]]
    /\ UNCHANGED <<lockVars, procs, pin, pout, envVars, mainpc, wpc, buildVars, hm, lock, torn,
                   posts, readerVars, buildHist, swapHist>>

\* other.hm.lock().unwrap()
CallLockOther(c) ==
    /\ cst[c].pc = "LockOther"
    /\ lock[cst[c].other] = "none"
    /\ lock' = [lock EXCEPT ![cst[c].other] = c]
    /\ cst' = [cst EXCEPT ![c].pc = "LockSelf"]
    /\ UNCHANGED <<lockVars, procs, pin, pout, envVars, mainpc, wpc, buildVars, hm, torn,
                   posts, readerVars, buildHist, swapHist>>

\* self.hm.lock().unwrap()
CallLockSelf(c) ==
    /\ cst[c].pc = "LockSelf"
    /\ lock[cst[c].self] = "none"
    /\ lock' = [lock EXCEPT ![cst[c].self] = c]
    /\ cst' = [cst EXCEPT ![c].pc = "Swap"]
    /\ UNCHANGED <<lockVars, procs, pin, pout, envVars, mainpc, wpc, buildVars, hm, torn,
                   posts, readerVars, buildHist, swapHist>>

\* self.hm.lock() on the mutex this thread already holds as other_handle:
\* std::sync::Mutex leaves it unspecified, the call never returns - it blocks
\* for ever or panics, and the unwinding drops other_handle and poisons the
\* mutex.
CallRelock(c) ==
    /\ cst[c].pc = "LockSelf"
    /\ lock[cst[c].self] = c
    /\ \E outcome \in {"Blocked", "Panicked"} :
          /\ cst' = [cst EXCEPT ![c].pc = outcome]
          /\ lock' = IF outcome = "Panicked"
                     THEN [lock EXCEPT ![cst[c].other] = "poisoned"]
                     ELSE lock
    /\ UNCHANGED <<lockVars, procs, pin, pout, envVars, mainpc, wpc, buildVars, hm, torn,
                   posts, readerVars, buildHist, swapHist>>

\* lock() on a poisoned mutex returns Err and unwrap panics; a guard held is
\* dropped by the unwinding, which poisons its mutex too.
CallLockPoisoned(c) ==
    /\ \E m \in LockTarget(c) : lock[m] = "poisoned"
    /\ cst' = [cst EXCEPT ![c].pc = "Panicked"]
    /\ lock' = [m \in MapIds |-> IF m \in Guards(c) THEN "poisoned" ELSE lock[m]]
    /\ UNCHANGED <<lockVars, procs, pin, pout, envVars, mainpc, wpc, buildVars, hm, torn,
                   posts, readerVars, buildHist, swapHist>>

\* std::mem::swap(&mut *handle, &mut *other_handle)
CallSwap(c) ==
    /\ cst[c].pc = "Swap"
    /\ LET sw == SwapMaps(hm[cst[c].self], hm[cst[c].other])
       IN hm' = [hm EXCEPT ![cst[c].self] = sw[1], ![cst[c].other] = sw[2]]
    /\ cst' = [cst EXCEPT ![c].pc = "Unlock"]
    /\ UNCHANGED <<lockVars, procs, pin, pout, envVars, mainpc, wpc, buildVars, lock, torn,
                   posts, readerVars, buildHist, swapHist>>

\* replace returns: both guards are dropped.
CallReturn(c) ==
    /\ cst[c].pc = "Unlock"
    /\ lock' = [m \in MapIds |-> IF m \in Guards(c) THEN "none" ELSE lock[m]]
    /\ cst' = [cst EXCEPT ![c].pc = "done"]
    /\ UNCHANGED <<lockVars, procs, pin, pout, envVars, mainpc, wpc, buildVars, hm, torn,
                   posts, readerVars, buildHist, swapHist>>

\* Two Stores over two maps, and threads holding handles of both.
ReplaceInit ==
    /\ NoThreads
    /\ fs = 1
    /\ procs = MainProcs
    /\ nchanges = 0
    /\ pending = FALSE
    /\ mainpc = "serving"
    /\ wpc = "Off"
    /\ NoBuild("Idle")
    /\ hm = [m \in MapIds |-> IF m = "live" THEN MapA ELSE MapB]
    /\ lock = [m \in MapIds |-> "none"]
    /\ torn = {}
    /\ NoReads
    /\ NoHistory
    /\ cst = [c \in Callers |-> Idle]
    /\ pin = NoInput
    /\ pout = NoOutput

ReplaceNext ==
    \/ \E c \in Callers, self \in MapIds, other \in MapIds : CallReplace(c, self, other)
    \/ \E c \in Callers : CallLockOther(c)
    \/ \E c \in Callers : CallLockSelf(c)
    \/ \E c \in Callers : CallRelock(c)
    \/ \E c \in Callers : CallLockPoisoned(c)
    \/ \E c \in Callers : CallSwap(c)
    \/ \E c \in Callers : CallReturn(c)

ReplaceSpec == ReplaceInit /\ [][ReplaceNext]_vars

\* ------------------------------------------- Resource::url and walk on their own

\* The paths and strings Resources are located by, and the bases url is
\* given.
UrlPaths ==
    {MkPath(dir, stem, ext) :
        dir \in {<<>>, <<"site">>, <<"site", "a">>, <<"other">>, <<"other", "site">>},
        stem \in {"b", "post"},
        ext \in {"css", "html"}}

UrlStrings == {"posts/index.html", "/posts/index.html", "", "site/b.css"}

UrlBases == {<<"site">>, <<"site", "a">>}

UrlResources ==
    {MkResource(p, UseOriginalPath, <<"x">>) : p \in UrlPaths}
    \cup {MkResource(MkPath(<<"site">>, "post", "md"), Filepath(p), <<"x">>) : p \in UrlPaths}
    \cup {MkResource(PostListTemplatePath, Absolute(str), <<"x">>) : str \in UrlStrings}

\* The trees walk is run on: any of these files, at most one directory that
\* cannot be read, at most one entry whose metadata cannot be read.
WalkFiles == {CssPath, TxtPath, IconPath, NestedCssPath, Post1Path}

WalkDirs == {Root, Root \o <<"img">>, Root \o <<"img", "icons">>, Root \o <<"old.css">>}

WalkTrees ==
    {MkTree([p \in present |-> Plain(<<"x">>)], unreadable, badEntries) :
        present \in SUBSET WalkFiles,
        unreadable \in {{}} \cup {{d} : d \in WalkDirs},
        badEntries \in {{}, {TxtPath}, {IconPath}}}

\* resource.url(base) is called.
UrlCall(res, base) ==
    /\ pin = NoInput
    /\ pin' = [fn |-> "url", res |-> res, base |-> base]
    /\ UNCHANGED <<lockVars, procs, cst, pout, envVars, mainpc, wpc, buildVars, hm, lock, torn,
                   posts, readerVars, buildHist, swapHist>>

\* It returns.
UrlReturn ==
    /\ pin.fn = "url"
    /\ pout = NoOutput
    /\ pout' = [fn |-> "url", r |-> ResourceUrl(pin.res, pin.base)]
    /\ UNCHANGED <<lockVars, procs, cst, pin, envVars, mainpc, wpc, buildVars, hm, lock, torn,
                   posts, readerVars, buildHist, swapHist>>

\* find_and_process calls walk(base, &mut paths) on a tree.
WalkCall(tree) ==
    /\ pin = NoInput
    /\ pin' = [fn |-> "walk", tree |-> tree]
    /\ UNCHANGED <<lockVars, procs, cst, pout, envVars, mainpc, wpc, buildVars, hm, lock, torn,
                   posts, readerVars, buildHist, swapHist>>

\* walk returns, with what it pushed to paths, and find_and_process goes on
\* or returns the Err.
WalkReturn ==
    /\ pin.fn = "walk"
    /\ pout = NoOutput
    /\ pout' = [fn |-> "walk", r |-> WalkDir(pin.tree, Root), find |-> FindWalk(pin.tree)]
    /\ UNCHANGED <<lockVars, procs, cst, pin, envVars, mainpc, wpc, buildVars, hm, lock, torn,
                   posts, readerVars, buildHist, swapHist>>

\* The posts list of a PostsProcessor after n posts were processed, the
\* k-th pushed being published on the day days[k].
FlushAcc(n, days) ==
    [k \in 1..n |-> MkPostItem("p" \o ToString(k) \o ".html", "p" \o ToString(k),
                               DatetimeToString(LocalDate(days[k])))]

\* The lists flush is applied to: every length up to MaxPosts, the dates
\* rising, falling or repeating in the order of the pushes.
FlushAccs ==
    {FlushAcc(n, [k \in 1..n |-> k]) : n \in 0..MaxPosts}
        \cup {FlushAcc(n, [k \in 1..n |-> n + 1 - k]) : n \in 0..MaxPosts}
        \cup {FlushAcc(n, [k \in 1..n |-> 1 + (k % 3)]) : n \in 0..MaxPosts}

\* The flush loop calls flush on a PostsProcessor that has accumulated acc.
PostsFlushCall(acc) ==
    /\ pin = NoInput
    /\ pin' = [fn |-> "flush", acc |-> acc]
    /\ UNCHANGED <<lockVars, procs, cst, pout, envVars, mainpc, wpc, buildVars, hm, lock, torn,
                   posts, readerVars, buildHist, swapHist>>

\* flush returns the listing pages, or the error of a render_post_list.
PostsFlushReturn ==
    /\ pin.fn = "flush"
    /\ pout = NoOutput
    /\ \E renderOk \in (IF Chunks(pin.acc, PageSize) = <<>> THEN {TRUE} ELSE BOOLEAN) :
          pout' = [fn |-> "flush", ok |-> renderOk,
                   r |-> IF renderOk THEN PostsFlush(pin.acc) ELSE <<>>]
    /\ UNCHANGED <<lockVars, procs, cst, pin, envVars, mainpc, wpc, buildVars, hm, lock, torn,
                   posts, readerVars, buildHist, swapHist>>

PureInit ==
    /\ NoThreads
    /\ fs = 1
    /\ procs = MainProcs
    /\ nchanges = 0
    /\ pending = FALSE
    /\ mainpc = "serving"
    /\ wpc = "Off"
    /\ NoBuild("Idle")
    /\ hm = [m \in MapIds |-> EmptyMap]
    /\ lock = [m \in MapIds |-> "none"]
    /\ torn = {}
    /\ NoReads
    /\ NoHistory
    /\ cst = [c \in Callers |-> Idle]
    /\ pin = NoInput
    /\ pout = NoOutput

PureNext ==
    \/ \E res \in UrlResources, base \in UrlBases : UrlCall(res, base)
    \/ UrlReturn
    \/ \E tree \in WalkTrees : WalkCall(tree)
    \/ WalkReturn
    \/ \E acc \in FlushAccs : PostsFlushCall(acc)
    \/ PostsFlushReturn

PureSpec == PureInit /\ [][PureNext]_vars

\* ------------------------------------------------- a rebuild lock by lock

\* The mutexes the thread t holds.
Held(t) == {l \in Locks : lk[l] = t}

\* Mutex::lock: the thread t takes the free mutex l and goes on to pc.
Acquire(t, l, pc) ==
    /\ lk[l] = "none"
    /\ lk' = [lk EXCEPT ![l] = t]
    /\ tpc' = [tpc EXCEPT ![t] = pc]

\* The guard of l is dropped and the thread goes on to pc.
Release(t, l, pc) ==
    /\ lk' = [lk EXCEPT ![l] = "none"]
    /\ tpc' = [tpc EXCEPT ![t] = pc]

\* The callback calls rebuild: find_and_process has walked n paths and
\* made the new Store, and try_for_each starts.
RebuildStart(n) ==
    /\ tpc["rebuild"] = "Idle"
    /\ tpc' = [tpc EXCEPT !["rebuild"] = "Dispatch"]
    /\ ntasks' = n
    /\ derr' = FALSE
    /\ UNCHANGED <<progVars, lk, nblocks, npages>>

\* A worker takes a path. No processor matches it, or process fails before
\* any lock, or it returns an empty Resource (put returns before its lock),
\* or it returns a Resource without taking a lock (a static file, a liquid
\* page), or it is a post with k code blocks.
WorkerTake(w) ==
    /\ tpc["rebuild"] = "Dispatch"
    /\ tpc[w] = "Idle"
    /\ ntasks > 0
    /\ ntasks' = ntasks - 1
    /\ \E kind \in {"skip", "fail", "put", "post"} :
          \/ /\ kind = "skip"
             /\ UNCHANGED <<tpc, nblocks, derr>>
          \/ /\ kind = "fail"
             /\ derr' = TRUE
             /\ UNCHANGED <<tpc, nblocks>>
          \/ /\ kind = "put"
             /\ tpc' = [tpc EXCEPT ![w] = "Put"]
             /\ UNCHANGED <<nblocks, derr>>
          \/ /\ kind = "post"
             /\ \E k \in 0..MaxBlocks : nblocks' = [nblocks EXCEPT ![w] = k]
             /\ tpc' = [tpc EXCEPT ![w] = "Highlight"]
             /\ derr' = derr
    /\ UNCHANGED <<progVars, lk, npages>>

\* highlight_code, one iteration of its loop: self.highlighter.lock()
HighlightLock(w) ==
    /\ tpc[w] = "Highlight"
    /\ nblocks[w] > 0
    /\ Acquire(w, "highlighter", "Highlighting")
    /\ UNCHANGED <<progVars, ntasks, nblocks, npages, derr>>

\* A faulty variant: the guard of the highlighter outlives the iteration.
HighlightKeepsGuard(w) ==
    /\ tpc[w] = "Highlighting"
    /\ nblocks' = [nblocks EXCEPT ![w] = 0]
    /\ tpc' = [tpc EXCEPT ![w] = "Highlight"]
    /\ UNCHANGED <<progVars, lk, ntasks, npages, derr>>

\* The iteration ends (the block is replaced, or highlight fails and process
\* returns the error): the guard is dropped.
HighlightUnlock(w) ==
    /\ tpc[w] = "Highlighting"
    /\ nblocks' = [nblocks EXCEPT ![w] = @ - 1]
    /\ \E ok \in BOOLEAN :
          /\ Release(w, "highlighter", IF ok THEN "Highlight" ELSE "Idle")
          /\ derr' = (derr \/ ~ok)
    /\ UNCHANGED <<progVars, ntasks, npages>>

\* process: self.posts.lock(), once every code block is done
PostsLock(w) ==
    /\ tpc[w] = "Highlight"
    /\ nblocks[w] = 0
    /\ Acquire(w, "posts", "Pushing")
    /\ UNCHANGED <<progVars, ntasks, nblocks, npages, derr>>

\* process: handle.push(..), the end of the block drops the guard; process
\* returns the Resource.
PostsPush(w) ==
    /\ tpc[w] = "Pushing"
    /\ Release(w, "posts", "Put")
    /\ UNCHANGED <<progVars, ntasks, nblocks, npages, derr>>

\* The task: url fails, or store.put: self.hm.lock() of the new Store
PutLock(w) ==
    /\ tpc[w] = "Put"
    /\ \/ /\ Acquire(w, "fresh", "Inserting")
          /\ derr' = derr
       \/ /\ tpc' = [tpc EXCEPT ![w] = "Idle"]
          /\ derr' = TRUE
          /\ lk' = lk
    /\ UNCHANGED <<progVars, ntasks, nblocks, npages>>

\* put: hm.insert(..), put returns and the task ends
PutInsert(w) ==
    /\ tpc[w] = "Inserting"
    /\ Release(w, "fresh", "Idle")
    /\ UNCHANGED <<progVars, ntasks, nblocks, npages, derr>>

\* try_for_each returns: every task that began has ended, and no path is
\* left unless a task failed. On an Err find_and_process returns it and the
\* callback's expect panics.
DispatchReturn ==
    /\ tpc["rebuild"] = "Dispatch"
    /\ \A w \in Workers : tpc[w] = "Idle"
    /\ ntasks = 0 \/ derr
    /\ tpc' = [tpc EXCEPT !["rebuild"] = IF derr THEN "Failed" ELSE "Flush"]
    /\ UNCHANGED <<progVars, lk, ntasks, nblocks, npages, derr>>

\* PostsProcessor::flush: self.posts.lock()
FlushLock ==
    /\ tpc["rebuild"] = "Flush"
    /\ Acquire("rebuild", "posts", "Rendering")
    /\ UNCHANGED <<progVars, ntasks, nblocks, npages, derr>>

\* flush renders its pages, which takes no lock, and returns them or an
\* error: the guard is dropped as it returns.
FlushReturn ==
    /\ tpc["rebuild"] = "Rendering"
    /\ \E ok \in BOOLEAN, n \in 0..MaxPages :
          /\ Release("rebuild", "posts", IF ok THEN "PutPages" ELSE "Failed")
          /\ npages' = IF ok THEN n ELSE 0
    /\ UNCHANGED <<progVars, ntasks, nblocks, derr>>

\* The flush loop: store.put of a page, its lock
PagePutLock ==
    /\ tpc["rebuild"] = "PutPages"
    /\ npages > 0
    /\ Acquire("rebuild", "fresh", "PageInserting")
    /\ UNCHANGED <<progVars, ntasks, nblocks, npages, derr>>

\* put: hm.insert(..) of the page, put returns
PagePutInsert ==
    /\ tpc["rebuild"] = "PageInserting"
    /\ Release("rebuild", "fresh", "PutPages")
    /\ npages' = npages - 1
    /\ UNCHANGED <<progVars, ntasks, nblocks, derr>>

\* find_and_process returns Ok(store)
BuildReturn ==
    /\ tpc["rebuild"] = "PutPages"
    /\ npages = 0
    /\ tpc' = [tpc EXCEPT !["rebuild"] = "Done"]
    /\ UNCHANGED <<progVars, lk, ntasks, nblocks, npages, derr>>

\* replace: other.hm.lock()
SwapLockOther ==
    /\ tpc["rebuild"] = "Done"
    /\ Acquire("rebuild", "fresh", "LockSelf")
    /\ UNCHANGED <<progVars, ntasks, nblocks, npages, derr>>

\* replace: self.hm.lock()
SwapLockSelf ==
    /\ tpc["rebuild"] = "LockSelf"
    /\ Acquire("rebuild", "live", "Swap")
    /\ UNCHANGED <<progVars, ntasks, nblocks, npages, derr>>

\* replace: mem::swap, and both guards are dropped as replace returns; the
\* callback sends its notification and returns.
SwapReturn ==
    /\ tpc["rebuild"] = "Swap"
    /\ lk' = [lk EXCEPT !["live"] = "none", !["fresh"] = "none"]
    /\ tpc' = [tpc EXCEPT !["rebuild"] = "Idle"]
    /\ UNCHANGED <<progVars, ntasks, nblocks, npages, derr>>

\* get: self.hm.lock() of the Store the server reads
ReaderLock(r) ==
    /\ tpc[r] = "Idle"
    /\ Acquire(r, "live", "Reading")
    /\ UNCHANGED <<progVars, ntasks, nblocks, npages, derr>>

\* get: hm.get(path).cloned(), get returns
ReaderReturn(r) ==
    /\ tpc[r] = "Reading"
    /\ Release(r, "live", "Idle")
    /\ UNCHANGED <<progVars, ntasks, nblocks, npages, derr>>

LockInit == PureInit

\* What a worker does
WorkerStep(w) ==
    \/ WorkerTake(w)
    \/ HighlightLock(w)
    \/ HighlightUnlock(w)
    \/ PostsLock(w)
    \/ PostsPush(w)
    \/ PutLock(w)
    \/ PutInsert(w)

\* What find_and_process does once its dispatch has started
BuildStep ==
    \/ DispatchReturn
    \/ FlushLock
    \/ FlushReturn
    \/ PagePutLock
    \/ PagePutInsert
    \/ BuildReturn

LockNext ==
    \/ \E n \in 0..MaxTasks : RebuildStart(n)
    \/ \E w \in Workers : WorkerStep(w)
    \/ BuildStep
    \/ SwapLockOther
    \/ SwapLockSelf
    \/ SwapReturn
    \/ \E r \in Readers : ReaderLock(r)
    \/ \E r \in Readers : ReaderReturn(r)

\* A thread that can take a step does not stop for ever: the workers and
\* the thread that called find_and_process keep running. Nothing is asked
\* of the file system (a change may never come) nor of the requests.
LockSpec ==
    /\ LockInit
    /\ [][LockNext]_vars
    /\ \A w \in Workers : WF_vars(WorkerStep(w))
    /\ WF_vars(BuildStep)

\* ---------------------------------------------------------------- properties

InFlight(b) == bphase[b] \in {"Walking", "Dispatching", "Flushing"}

\* The callback is between two calls of replace, at least one made.
BetweenReplaces == nreplace > 0 /\ wpc \in {"Notify", "Watching", "Rebuilding", "Dead"}

IsFirstMatch(i, path) ==
    Matches(Procs[i], path) /\ \A j \in 1..(i - 1) : ~Matches(Procs[j], path)

\* The path a Resource is located by, when it is located by a path.
Located(res) ==
    IF res.url_path.kind = "UseOriginalPath" THEN res.original_path ELSE res.url_path.path

\* C1 (atomic visibility): what a get on the live Store read is what its key
\* has in one complete generation of the live map, one that was installed
\* between the call of the get and its return; never a value of a map in the
\* middle of a replace.
C1_AtomicVisibility ==
    \A r \in Readers :
        rpc[r] = "got" =>
            \E g \in rlo[r]..Len(gens) : rres[r] = Lookup(gens[g], rkey[r])

\* A get has read a key while replace is called and waits for the live lock,
\* and the old and the new generation differ on that key.
C1_Witness ==
    \E r \in Readers :
        /\ rpc[r] = "got"
        /\ wpc = "LockSelf"
        /\ rres[r] # Lookup(snap, rkey[r])

\* C2 (rebuild isolation on failure): while and after a watcher-triggered
\* rebuild in which an error occurred, the live map is the map the live Store
\* held when the callback began, and replace has not been called since.
C2_RebuildIsolation ==
    bfail["watcher"] =>
        /\ hm["live"] = attempt.live
        /\ nreplace = attempt.nreplace

\* A rebuild has failed after its build-time Store was partly filled, while
\* the live Store holds an earlier generation.
C2_Witness ==
    /\ wpc = "Dead"
    /\ bfail["watcher"]
    /\ hm["fresh"] # EmptyMap
    /\ hm["live"] # EmptyMap

\* C3 (first match wins): every process call of a build is made by the first
\* processor, in registration order, whose matches is true of the path; no
\* path is processed by two processors; and every Resource a dispatch task
\* holds or has stored is what that first processor makes of its path.
C3_FirstMatchWins ==
    /\ \A b \in Builders :
        /\ \A c \in calls[b] : IsFirstMatch(c[1], c[2])
        /\ \A c, d \in calls[b] : c[2] = d[2] => c[1] = d[1]
        /\ \A h \in held[b] : IsFirstMatch(h.proc, h.path)
    /\ \A m \in MapIds : \A u \in DOMAIN hm[m] :
          hm[m][u].url_path.kind # "Absolute" =>
              \E i \in 1..Len(Procs), t \in 1..Len(Trees) :
                  /\ IsFirstMatch(i, hm[m][u].original_path)
                  /\ Process(Procs[i], hm[m][u].original_path, t)
                         = ProcessOk(hm[m][u], Process(Procs[i], hm[m][u].original_path, t).items)

\* A build has finished in which the post template, which the posts and the
\* liquid processor both match, was processed.
C3_Witness ==
    \E b \in Builders :
        /\ bphase[b] = "Done"
        /\ <<1, PostTemplatePath>> \in calls[b]
        /\ Matches("liquid", PostTemplatePath)

\* C4 (flush after dispatch): in a build that succeeded, the titles on the
\* listing pages flush returned are exactly those of the posts the build's
\* process calls appended, each once; and until the Store is handed on, its
\* first listing page shows them.
C4_FlushAfterDispatch ==
    \A b \in Builders :
        bphase[b] = "Done" =>
            /\ {flushed[b][k] : k \in 1..Len(flushed[b])} = {it.title : it \in pushed[b]}
            /\ Len(flushed[b]) = Cardinality(pushed[b])
            /\ (/\ pushed[b] # {}
                /\ Len(flushed[b]) <= PageSize
                /\ \/ b = "main" /\ mainpc = "build"
                   \/ b = "watcher" /\ wpc = "Rebuilding")
               => /\ "posts/index.html" \in DOMAIN hm[BuildMap(b)]
                  /\ PageTitles(hm[BuildMap(b)]["posts/index.html"]) = flushed[b]

\* A build has succeeded in which two posts were processed in parallel.
C4_Witness ==
    \E b \in Builders :
        /\ bphase[b] = "Done"
        /\ Cardinality(pushed[b]) = 2
        /\ Len(flushed[b]) = 2

\* C5 (empty-content suppression): no map of any Store, build-time or live,
\* ever holds an entry whose Resource has empty contents.
C5_NoEmptyContents ==
    \A m \in MapIds : \A u \in DOMAIN hm[m] : hm[m][u].contents # <<>>

\* The static processor has processed an empty file and the task has put
\* its Resource, next to other entries.
C5_Witness ==
    \E b \in Builders :
        /\ <<3, EmptyCssPath>> \in calls[b]
        /\ \A h \in held[b] : h.path # EmptyCssPath
        /\ EmptyCssPath \notin todo[b]
        /\ hm[BuildMap(b)] # EmptyMap

\* C7 (the watcher survives a failed rebuild): while the process is alive the
\* debouncer thread has not ended, so that a later event can trigger a
\* rebuild.
C7_WatcherSurvives == mainpc = "serving" => wpc # "Dead"

\* C8 (rebuilds are serialized): at most one find_and_process pass is in
\* flight, and the watcher is created only once the initial build is over.
C8_RebuildsSerialized ==
    /\ Cardinality({b \in Builders : InFlight(b)}) <= 1
    /\ wpc # "Off" => ~InFlight("main")

\* A watcher-triggered rebuild is in flight and new events have arrived.
C8_Witness ==
    /\ wpc = "Rebuilding"
    /\ bphase["watcher"] = "Dispatching"
    /\ pending

\* C9 (replace installs exactly the new generation): from the return of
\* replace to its next call, the live map is what new_store held when replace
\* was called, and a get reads from it: old entries are gone.
C9_ReplaceInstallsNew ==
    BetweenReplaces =>
        /\ hm["live"] = snap
        /\ \A r \in Readers : rpc[r] = "got" => rres[r] = Lookup(snap, rkey[r])

\* replace has returned, and a URL of the old generation is not in the new
\* one.
C9_Witness ==
    /\ wpc = "Notify"
    /\ \E u \in DOMAIN attempt.live : u \notin DOMAIN snap
    /\ \E u \in DOMAIN snap : u \notin DOMAIN attempt.live

\* C10 (no partial Store on failure): find_and_process returns a Store only
\* from a build without any error, and only such a Store reaches replace or
\* the server.
C10_NoPartialStore ==
    /\ \A b \in Builders : bphase[b] = "Done" => ~bfail[b]
    /\ wpc \in {"LockSelf", "Swap", "Swapping", "Unlock", "Notify"} => ~bfail["watcher"]
    /\ mainpc = "serving" => ~bfail["main"]

\* A build has failed after its build-time Store received entries.
C10_Witness ==
    \E b \in Builders :
        /\ bphase[b] = "Failed"
        /\ bfail[b]
        /\ hm[BuildMap(b)] # EmptyMap

\* C13 (change notification): the callback has sent one notification for
\* each rebuild that succeeded, each after that rebuild's replace returned -
\* none while replace is still running - and none for a rebuild that failed.
C13_OneNotificationPerRebuild ==
    /\ nnotify = IF wpc \in {"LockSelf", "Swap", "Swapping", "Unlock", "Notify"}
                 THEN nreplace - 1
                 ELSE nreplace
    /\ bfail["watcher"] => nnotify = attempt.nreplace

\* One rebuild has succeeded and was notified, and a later one has failed.
C13_Witness ==
    /\ nnotify = 1
    /\ wpc = "Dead"
    /\ bfail["watcher"]

\* C14 (the live lock is not held during a build): the debouncer thread holds
\* the live map's mutex only inside replace, after its second lock, so while
\* a rebuild walks, dispatches or flushes the mutex is free or held by a get.
C14_LiveLockFreeDuringBuild ==
    /\ lock["live"] = "watcher" => wpc \in {"Swap", "Swapping", "Unlock"}
    /\ InFlight("watcher") => lock["live"] \in Readers \cup {"none"}

\* A get holds the live map's mutex and has read its key while a rebuild is
\* dispatching and has already put entries into its own Store.
C14_Witness ==
    /\ bphase["watcher"] = "Dispatching"
    /\ hm["fresh"] # EmptyMap
    /\ \E r \in Readers : rpc[r] = "got" /\ lock["live"] = r

\* C25 (the handles share one map): the handle the server reads and the
\* handle the callback calls replace on are one map, so once replace has
\* exchanged the maps a get reads the new generation, the one new_store held;
\* the Store the build returned holds the old generation from then until
\* replace returns, where it is dropped with it.
C25_SharedMap ==
    /\ wpc = "Unlock" => hm["live"] = snap /\ hm["fresh"] = attempt.live
    /\ wpc \in {"Notify", "Watching"} => hm["fresh"] = EmptyMap
    /\ \A r \in Readers :
          /\ rpc[r] \in {"locked", "got"} => rlo[r] = Len(gens)
          /\ rpc[r] = "got" => rres[r] = Lookup(gens[Len(gens)], rkey[r])

\* The callback's replace has returned and a get that began after it has
\* read an entry that differs from the old generation's.
C25_Witness ==
    /\ wpc = "Notify"
    /\ attempt.live # EmptyMap
    /\ \E r \in Readers :
          /\ rpc[r] = "got"
          /\ rlo[r] = 2
          /\ rres[r] # {}
          /\ rres[r] # Lookup(attempt.live, rkey[r])

\* ---------------------------------------------- properties of a single build

\* One dispatch task run from its start to its end on the build state st:
\* the first matching processor's process, the URL and the put.
SeqTask(st, path, t) ==
    LET i == DispatchProc(path)
    IN IF ~st.ok \/ i = 0 THEN st
       ELSE LET out == Process(Procs[i], path, t)
                u == ResourceUrl(out.res, Root)
            IN IF ~out.ok \/ ~u.ok THEN [st EXCEPT !.ok = FALSE]
               ELSE [ok |-> TRUE,
                     map |-> Put(st.map, u.url, out.res),
                     posts |-> IF Procs[i] \in PostsInstances
                               THEN [st.posts EXCEPT ![Procs[i]] = @ \o out.items]
                               ELSE st.posts]

RECURSIVE SeqDispatch(_, _, _)
SeqDispatch(st, ps, t) ==
    IF Len(ps) = 0 THEN st
    ELSE SeqDispatch(SeqTask(st, ps[1], t), Tail(ps), t)

\* The flush loop from the processor k on: the pages each PostsProcessor
\* returns for the posts it accumulated are put, in registration order.
RECURSIVE SeqFlush(_, _, _)
SeqFlush(map, accs, k) ==
    IF k > Len(Procs) THEN map
    ELSE IF Procs[k] \notin PostsInstances THEN SeqFlush(map, accs, k + 1)
    ELSE LET ress == PostsFlush(accs[Procs[k]])
         IN SeqFlush(PutAll(map, [j \in 1..Len(ress) |-> ResourceUrl(ress[j], Root).url], ress),
                     accs, k + 1)

\* The Store find_and_process returns on the tree t when the dispatch tasks
\* run one after another, in the order ps.
SeqBuild(ps, t) ==
    LET st == SeqDispatch([ok |-> TRUE, map |-> EmptyMap,
                           posts |-> [p \in PostsInstances |-> <<>>]], ps, t)
    IN SeqFlush(st.map, st.posts, 1)

\* The URL of the Resource the dispatch task of a walked path puts, if any.
TaskUrls(path, t) ==
    LET i == DispatchProc(path)
    IN IF i = 0 THEN {}
       ELSE LET out == Process(Procs[i], path, t)
            IN IF out.ok /\ ResourceUrl(out.res, Root).ok /\ out.res.contents # <<>>
               THEN {ResourceUrl(out.res, Root).url}
               ELSE {}

\* The URLs of the listing pages flush returns for n posts.
ListingUrls(n) ==
    {IF k = 0 THEN "posts/index.html" ELSE "posts/posts-" \o ToString(k) \o ".html" :
        k \in {j \in 0..n : j * PageSize < n}}

\* The processors of the list whose process appends a post in a build of
\* the tree t: the ones whose flush returns listing pages.
Flushers(t) ==
    {k \in 1..Len(Procs) :
        \E p \in Walk(t).paths :
            /\ DispatchProc(p) = k
            /\ Process(Procs[k], p, t).ok
            /\ Process(Procs[k], p, t).items # <<>>}

\* No two Resources of a build of the tree t share a URL.
NoSharedUrl(t) ==
    /\ \A p, q \in Walk(t).paths : p # q => TaskUrls(p, t) \cap TaskUrls(q, t) = {}
    /\ \A p \in Walk(t).paths : TaskUrls(p, t) \cap ListingUrls(Cardinality(Walk(t).paths)) = {}
    /\ Cardinality(Flushers(t)) <= 1

\* C11 (interleaving independence): for a fixed tree and processor list with
\* no URL shared by two Resources, the Store a successful build returns is the
\* same under every interleaving of its dispatch tasks: it is the Store that
\* results when the tasks run one after another in some fixed order.
C11_InterleavingIndependence ==
    (bphase["main"] = "Done" /\ NoSharedUrl(fs)) =>
        hm["live"] = SeqBuild(SeqOf(Walk(fs).paths), fs)

\* The published Datetime in the metadata of the post of tree t that has
\* this title.
PublishedOf(title, t) ==
    Files(t)[CHOOSE p \in DOMAIN Files(t) :
                Files(t)[p].metaOk /\ Files(t)[p].title = title].published

\* C15 (listing order): on the listing pages a successful build returns,
\* taken in page order, the posts appear in descending order of their
\* published date, whatever order the process calls appended them in: no
\* post is listed after one published earlier than it.
C15_ListingOrder ==
    bphase["main"] = "Done" =>
        \A i, j \in 1..Len(flushed["main"]) :
            i < j => Instant(PublishedOf(flushed["main"][i], fs))
                         >= Instant(PublishedOf(flushed["main"][j], fs))

\* C17 (two-phase ordering): flush is called on the processors in
\* registration order, each at most once, and on every one of them by the
\* time the build has succeeded; the first flush comes only when every
\* dispatch task has ended; and in a build whose dispatch failed no flush is
\* called.
C17_TwoPhaseOrdering ==
    LET fc == flushCalls["main"]
    IN /\ \A k \in 1..Len(fc) : fc[k] = k
       /\ Len(fc) <= Len(Procs)
       /\ bphase["main"] = "Done" => Len(fc) = Len(Procs)
       /\ fc # <<>> => todo["main"] = {} /\ held["main"] = {}
       /\ berr["main"] => fc = <<>>

\* A build with four processors has succeeded after its dispatch processed
\* two posts.
C17_Witness ==
    /\ bphase["main"] = "Done"
    /\ flushCalls["main"] = <<1, 2, 3, 4>>
    /\ Cardinality(pushed["main"]) = 2

\* How many posts the dispatch of a build of the tree t appends.
NPosts(t) ==
    Cardinality({p \in Walk(t).paths :
                    /\ DispatchProc(p) # 0
                    /\ Process(Procs[DispatchProc(p)], p, t).ok
                    /\ Process(Procs[DispatchProc(p)], p, t).items # <<>>})

\* C18 (content of a successful build): when no two Resources share a URL,
\* the keys of the Store a successful build returns are the URLs of the
\* non-empty Resources process made of the discovered paths some processor
\* matches, and the URLs of the listing pages flush returned - no write of a
\* dispatch task is lost; a discovered path no processor matches has no entry,
\* and the dispatch fails only on an error of process or of url.
C18_BuildContent ==
    /\ (bphase["main"] = "Done" /\ NoSharedUrl(fs)) =>
          /\ DOMAIN hm["live"] =
                 UNION {TaskUrls(p, fs) : p \in Walk(fs).paths} \cup ListingUrls(NPosts(fs))
          /\ \A p \in Walk(fs).paths :
                 DispatchProc(p) = 0 =>
                     \A u \in DOMAIN hm["live"] : hm["live"][u].original_path # p
    /\ berr["main"] =>
          \E c \in calls["main"] :
              \/ ~Process(Procs[c[1]], c[2], fs).ok
              \/ ~ResourceUrl(Process(Procs[c[1]], c[2], fs).res, Root).ok

\* A build has succeeded on a tree with two posts and a discovered image no
\* processor matches: the Store holds the two posts and the listing page.
C18_Witness ==
    /\ bphase["main"] = "Done"
    /\ PngPath \in Walk(fs).paths
    /\ DispatchProc(PngPath) = 0
    /\ DOMAIN hm["live"] = {"posts/p1.html", "posts/p2.html", "posts/index.html"}

\* The dispatch task of this process call has got past resource.url.
UrlResolved(c) ==
    /\ c[2] \notin todo["main"]
    /\ \A h \in held["main"] : h.path # c[2]

\* C19 (a URL that cannot be resolved is fatal): url fails exactly on a
\* Resource located by a path - its original path or a Filepath - that is not
\* under the root, never on an Absolute one; and once the task of a process
\* call whose Resource has such a path has called url, the build has an error
\* and never returns a Store.
C19_UrlErrorIsFatal ==
    /\ \A h \in held["main"] :
          ResourceUrl(h.res, Root).ok
              <=> (h.res.url_path.kind = "Absolute" \/ IsPrefix(Root, Located(h.res).dir))
    /\ \A p \in PostsInstances : \A k \in 1..Len(PostsFlush(posts[p])) :
          /\ PostsFlush(posts[p])[k].url_path.kind = "Absolute"
          /\ ResourceUrl(PostsFlush(posts[p])[k], Root).ok
    /\ \A c \in calls["main"] :
          LET out == Process(Procs[c[1]], c[2], fs)
          IN (/\ out.ok
              /\ out.res.url_path.kind # "Absolute"
              /\ ~IsPrefix(Root, Located(out.res).dir)
              /\ UrlResolved(c))
             => /\ bfail["main"]
                /\ berr["main"]
                /\ bphase["main"] \in {"Dispatching", "Failed"}
                /\ flushCalls["main"] = <<>>

\* A build has failed on the Resource::default() a processor returned for an
\* image, after another task had put its Resource.
C19_Witness ==
    /\ bphase["main"] = "Failed"
    /\ \E i \in 1..Len(Procs) :
          /\ <<i, IconPath>> \in calls["main"]
          /\ Process(Procs[i], IconPath, fs).res = MkResource(NoPath, UseOriginalPath, <<>>)
          /\ UrlResolved(<<i, IconPath>>)
    /\ hm["live"] # EmptyMap

\* The paths of the PostsProcessor's two templates.
TemplatePaths == {PostTemplatePath, PostListTemplatePath}

\* C21 (template files produce no entry of their own): with main's processor
\* order the two template paths are processed by the PostsProcessor only,
\* which returns a Resource without contents, and no Store of a build holds
\* an entry made by process from a template: none under the URL of the
\* template or of its rendering, and no entry located by a template's path.
C21_NoTemplateEntry ==
    procs = MainProcs =>
        /\ \A c \in calls["main"] :
              c[2] \in TemplatePaths =>
                  /\ Procs[c[1]] = "posts"
                  /\ Process(Procs[c[1]], c[2], fs).res.contents = <<>>
        /\ \A h \in held["main"] : h.path \in TemplatePaths => h.res.contents = <<>>
        /\ DOMAIN hm["live"] \cap {"post.html", "post_list.html", "post.liquid",
                                    "post_list.liquid"} = {}
        /\ \A u \in DOMAIN hm["live"] :
              hm["live"][u].url_path.kind # "Absolute" =>
                  hm["live"][u].original_path \notin TemplatePaths

\* A build has succeeded after the PostsProcessor processed both templates:
\* the Store holds the post, the page and the listing page rendered from the
\* list template.
C21_Witness ==
    /\ procs = MainProcs
    /\ bphase["main"] = "Done"
    /\ <<1, PostTemplatePath>> \in calls["main"]
    /\ <<1, PostListTemplatePath>> \in calls["main"]
    /\ DOMAIN hm["live"] = {"posts/p1.html", "index.html", "posts/index.html"}

\* The titles of the posts the processor k appends in a build of the tree t.
FlusherTitles(k, t) ==
    {Process(Procs[k], p, t).items[1].title :
        p \in {q \in Walk(t).paths : /\ DispatchProc(q) = k
                                     /\ Process(Procs[k], q, t).ok
                                     /\ Process(Procs[k], q, t).items # <<>>}}

\* The URLs of the listing pages the flushes of a build of the tree t return.
FlushUrls(t) ==
    UNION {ListingUrls(Cardinality(FlusherTitles(k, t))) : k \in Flushers(t)}

\* C23 (flush output wins a URL collision): in the Store of a successful
\* build every URL of a listing page some flush returned holds a listing
\* page, also when a dispatch task put a Resource under the same URL, under
\* every interleaving of the dispatch; and the first listing page is the one
\* of the last registered processor whose flush returned pages.
C23_FlushWinsCollision ==
    bphase["main"] = "Done" =>
        /\ \A u \in FlushUrls(fs) :
              /\ u \in DOMAIN hm["live"]
              /\ hm["live"][u].url_path = Absolute(u)
              /\ hm["live"][u].original_path = PostListTemplatePath
        /\ Flushers(fs) # {} =>
              LET last == CHOOSE k \in Flushers(fs) : \A j \in Flushers(fs) : j <= k
                  page == hm["live"]["posts/index.html"]
              IN Cardinality(FlusherTitles(last, fs)) <= PageSize =>
                    {PageTitles(page)[k] : k \in 1..Len(PageTitles(page))}
                        = FlusherTitles(last, fs)

\* A build with two PostsProcessors has succeeded on a tree with a static
\* file at posts/index.html and a post for each of the two: the static file
\* was processed, both flushes returned a first listing page, and the Store
\* holds the one of the processor registered last.
C23_Witness ==
    /\ bphase["main"] = "Done"
    /\ procs = NotesProcs
    /\ <<3, StaticIndexPath>> \in calls["main"]
    /\ Cardinality(Flushers(fs)) = 2
    /\ PageTitles(hm["live"]["posts/index.html"]) = <<"n1">>

\* --------------------------------------- properties of builds in sequence

\* C22 (the accumulator is empty at the start of every build): whenever
\* find_and_process is entered, whether the build before it succeeded or
\* failed, the PostsProcessor's list holds no post, and the listing pages of
\* a build that succeeded show the posts processed in that build, each once,
\* and no other.
C22_AccumulatorStartsEmpty ==
    /\ bphase["main"] = "Walking" => \A p \in PostsInstances : posts[p] = <<>>
    /\ bphase["main"] = "Done" =>
          /\ Len(flushed["main"]) = Cardinality(pushed["main"])
          /\ {flushed["main"][k] : k \in 1..Len(flushed["main"])}
                 = {it.title : it \in pushed["main"]}

\* ------------------------------------------ properties of replace on its own

\* C12 (replace never fails): whatever handles replace is called on - other
\* sharing self's map, or two threads exchanging the same two maps in
\* opposite directions - no call panics, and no call waits for a lock that
\* will never be released: there is no set of callers each waiting for a
\* mutex held by a caller of the set.
C12_ReplaceNeverFails ==
    /\ \A c \in Callers : cst[c].pc \notin {"Panicked", "Blocked"}
    /\ \A S \in SUBSET Callers :
          S # {} => \E c \in S : \A m \in LockTarget(c) : lock[m] \notin S

\* ---------------------------------- properties of url and walk on their own

\* A path written out, its components joined by "/".
PathString(path) == JoinComps(path.dir \o <<FileName(path)>>)

\* C16 (URL variants): url returns, for UseOriginalPath, the original path
\* relative to the root; for Filepath, the replacement path relative to the
\* root; for Absolute, the string itself. So with root site, site/a/b.css
\* gives a/b.css, Filepath(site/post.html) gives post.html and
\* Absolute("posts/index.html") gives posts/index.html.
C16_UrlVariants ==
    (pin.fn = "url" /\ pout.fn = "url") =>
        LET res == pin.res
            base == pin.base
            r == pout.r
        IN /\ res.url_path.kind = "Absolute" =>
                  r = [ok |-> TRUE, url |-> res.url_path.s]
           /\ (res.url_path.kind = "UseOriginalPath" /\ IsPrefix(base, res.original_path.dir)) =>
                  r.ok /\ JoinComps(base) \o "/" \o r.url = PathString(res.original_path)
           /\ (res.url_path.kind = "Filepath" /\ IsPrefix(base, res.url_path.path.dir)) =>
                  r.ok /\ JoinComps(base) \o "/" \o r.url = PathString(res.url_path.path)
           /\ (res.url_path.kind = "UseOriginalPath" /\ base = <<"site">>
                  /\ res.original_path = MkPath(<<"site", "a">>, "b", "css")) =>
                  r.url = "a/b.css"
           /\ (res.url_path = Filepath(MkPath(<<"site">>, "post", "html")) /\ base = <<"site">>) =>
                  r.url = "post.html"
           /\ res.url_path = Absolute("posts/index.html") => r.url = "posts/index.html"

\* url has returned post.html for a Resource whose original path is
\* site/post.md and whose replacement is site/post.html.
C16_Witness ==
    /\ pin.fn = "url"
    /\ pout.fn = "url"
    /\ pin.base = <<"site">>
    /\ pin.res.original_path = MkPath(<<"site">>, "post", "md")
    /\ pin.res.url_path = Filepath(MkPath(<<"site">>, "post", "html"))
    /\ pout.r.url = "post.html"

\* The directories of a tree that walk comes to: the root and every
\* directory between the root and a file.
ReachedDirs(tree) ==
    {Root} \cup UNION {{SubSeq(p.dir, 1, k) : k \in Len(Root)..Len(p.dir)} :
                           p \in DOMAIN tree.files}

\* Some directory or entry walk comes to cannot be read.
ReadFails(tree) ==
    \/ ReachedDirs(tree) \cap tree.unreadable # {}
    \/ DOMAIN tree.files \cap tree.badEntries # {}

\* C20 (walker completeness): walk succeeds exactly when every directory and
\* entry under the root can be read, and then it has pushed each file at any
\* depth whose extension is in EXTENSIONS exactly once and nothing else,
\* whatever the names of the directories on the way; when a read fails walk
\* returns the error and find_and_process returns it too.
C20_WalkerCompleteness ==
    (pin.fn = "walk" /\ pout.fn = "walk") =>
        LET tree == pin.tree
            paths == pout.r.paths
        IN /\ pout.r.ok <=> ~ReadFails(tree)
           /\ pout.find.ok <=> ~ReadFails(tree)
           /\ pout.r.ok =>
                 /\ {paths[k] : k \in 1..Len(paths)}
                        = {p \in DOMAIN tree.files : p.ext \in EXTENSIONS}
                 /\ Len(paths) = Cardinality({p \in DOMAIN tree.files : p.ext \in EXTENSIONS})
                 /\ pout.find.paths = {p \in DOMAIN tree.files : p.ext \in EXTENSIONS}

\* walk has returned the four files with a wanted extension of a tree that
\* also holds a text file, two of them two directories down or inside a
\* directory named old.css.
C20_Witness ==
    /\ pin.fn = "walk"
    /\ pout.fn = "walk"
    /\ DOMAIN pin.tree.files = WalkFiles
    /\ pout.r.ok
    /\ Len(pout.r.paths) = 4
    /\ \E k \in 1..4 : pout.r.paths[k] = IconPath
    /\ \E k \in 1..4 : pout.r.paths[k] = NestedCssPath

\* The URL render_post_list gives the page i (counted from 0).
PageUrl(i) == IF i = 0 THEN "posts/index.html" ELSE "posts/posts-" \o ToString(i) \o ".html"

\* C26 (pagination): for n accumulated posts a flush that does not fail
\* returns ceil(n / 10) pages, the first under the Absolute URL
\* posts/index.html and the page i >= 1 under posts/posts-i.html; a page
\* shows at most 10 posts and every post is on exactly one page; the last
\* page alone has an empty next link and the first alone an empty previous
\* link; and for no post flush returns no page and does not fail.
C26_Pagination ==
    pout.fn = "flush" =>
        LET n == Len(pin.acc)
            r == pout.r
            shown == ListedTitles(r)
        IN /\ n = 0 => pout.ok /\ r = <<>>
           /\ pout.ok =>
                 /\ Len(r) * 10 >= n
                 /\ Len(r) > 0 => (Len(r) - 1) * 10 < n
                 /\ \A k \in 1..Len(r) :
                       /\ r[k].url_path = Absolute(PageUrl(k - 1))
                       /\ ResourceUrl(r[k], Root) = [ok |-> TRUE, url |-> PageUrl(k - 1)]
                       /\ Len(PageTitles(r[k])) \in 1..10
                       /\ (r[k].contents[2] = "") <=> (k = 1)
                       /\ (r[k].contents[3] = "") <=> (k = Len(r))
                 /\ Len(shown) = n
                 /\ \A j \in 1..n :
                       Cardinality({k \in 1..Len(shown) : shown[k] = pin.acc[j].title}) = 1

\* flush has returned three pages for 21 posts.
C26_Witness ==
    /\ pout.fn = "flush"
    /\ pout.ok
    /\ Len(pin.acc) = 21
    /\ Len(pout.r) = 3

\* ------------------------------------ properties of a rebuild lock by lock

\* The mutex the thread t is about to lock, or "none".
Wants(t) ==
    IF t \in Workers
    THEN CASE tpc[t] = "Highlight" -> IF nblocks[t] > 0 THEN "highlighter" ELSE "posts"
           [] tpc[t] = "Put" -> "fresh"
           [] OTHER -> "none"
    ELSE IF t = "rebuild"
    THEN CASE tpc[t] = "Flush" -> "posts"
           [] tpc[t] = "PutPages" /\ npages > 0 -> "fresh"
           [] tpc[t] = "Done" -> "fresh"
           [] tpc[t] = "LockSelf" -> "live"
           [] OTHER -> "none"
    ELSE IF tpc[t] = "Idle" THEN "live" ELSE "none"

\* The thread t is at a lock of a mutex another thread holds.
Blocked(t) == Wants(t) # "none" /\ lk[Wants(t)] # "none"

\* No thread takes a mutex while it holds another, but replace, which takes
\* the live map's while it holds the new Store's; a request handler holds
\* the live map's at most; and a thread that waits for a mutex waits for a
\* thread that is not waiting itself.
LockDiscipline ==
    /\ \A t \in LockThreads :
          /\ Wants(t) # "none" /\ Held(t) # {} =>
                t = "rebuild" /\ tpc[t] = "LockSelf" /\ Held(t) = {"fresh"}
          /\ Cardinality(Held(t)) > 1 =>
                t = "rebuild" /\ tpc[t] = "Swap" /\ Held(t) = {"fresh", "live"}
          /\ Blocked(t) => ~Blocked(lk[Wants(t)])
    /\ \A r \in Readers : Held(r) \subseteq {"live"}
    /\ tpc["rebuild"] \in {"Dispatch", "Flush", "Rendering", "PutPages", "PageInserting"} =>
          lk["live"] \in Readers \cup {"none"}

\* C24 (no deadlock, and a build pass ends): in a rebuild next to concurrent
\* gets the locks are taken one at a time, but in replace, which takes the
\* new Store's and then the live map's, while a get takes the live map's
\* only, so no thread waits for a thread that waits; and the find_and_process
\* of every rebuild, its process and flush calls returning, ends: it returns
\* its Store or an error.
C24_NoDeadlock ==
    /\ []LockDiscipline
    /\ (tpc["rebuild"] = "Dispatch") ~> (tpc["rebuild"] \in {"Done", "Failed"})

\* replace holds the new Store's mutex and is at its lock of the live map's,
\* which a get holds, while the other handler is at its get.
C24_Witness ==
    /\ tpc["rebuild"] = "LockSelf"
    /\ lk["fresh"] = "rebuild"
    /\ \E r, q \in Readers : r # q /\ lk["live"] = r /\ tpc[q] = "Idle"

====
